---------------------------- MODULE Spec2Model ----------------------------
(***************************************************************************)
(* RagbotFlat: the document map, the two-tier artifact store, the ingester *)
(* and the retriever, as state machines over a small universe of file      *)
(* names, texts and blob ids.                                              *)
(*                                                                         *)
(* Encodings used throughout:                                              *)
(*   - a Python dict is a TLA+ function whose DOMAIN is the set of keys;   *)
(*   - Python None is the record None, except for a blob id, where the     *)
(*     falsy values None / "" are the number NotFound = 0 and real blob    *)
(*     ids are 1, 2, ... in the order the remote store assigned them;      *)
(*   - a byte string / text is a sequence of tokens; BadBytes is a byte    *)
(*     string that is not valid UTF-8 (bytes.decode and a text-mode read   *)
(*     raise on it);                                                       *)
(*   - a text is the token sequence bytes.decode and a text-mode read      *)
(*     return; the newline translation of text mode is not modelled;       *)
(*   - list positions are 0-based as in Python: At(s, i) is s[i].          *)
(***************************************************************************)
EXTENDS Integers, Sequences, FiniteSets, TLC

VARIABLES
    \* ---- storage shared by all processes
    walrusDown,      \* TRUE: every request to the remote blob store fails
    http,            \* the last call of a WalrusStorageClient method on its own: the
                     \* response the server gave and what the method made of it
    blobs,           \* remote blob store: blobs[id] is the payload stored under id
    dataFiles,       \* local document directory: path -> file
    mapFile,         \* document_map.json
    idsFile,         \* vector_store_blob_ids.json
    storeFiles,      \* vector_store/{faiss_index.bin, vectorizer.pkl, metadata.pkl}
    \* ---- app.py: the module-level DocumentMap
    document_map,    \* doc_map.document_map
    ret,             \* value returned by the last DocumentMap call
    lastAdd,         \* history: filename -> blob id of its latest add by any instance
    mapHist,         \* history of the DocumentMap calls: the record of the latest add per
                     \* filename, the dict and the backing file before the latest call
    \* ---- ingest.py: the DocumentIngester of the current ingestion process
    ingester,
    \* ---- retriever.py: the long-lived DocumentRetriever (rag_bot.retriever)
    index,
    vectorizer,
    document_metadata,
    vector_store_blob_ids,
    rdoc_map,        \* self.doc_map.document_map
    \* ---- threads of the web process
    loader,          \* activation of load_artifacts (upload/append handler thread)
    query,           \* activation of retrieve_documents (chat handler thread)
    handler,         \* the upload handler around ingestion and reload
    hist             \* history for the claims: the number of ingestion runs, the
                     \* artifact sets they wrote, the call before this one

storageVars == <<walrusDown, http, blobs, dataFiles, mapFile, idsFile, storeFiles>>
mapVars == <<document_map, ret, lastAdd, mapHist>>
retrieverVars == <<index, vectorizer, document_metadata, vector_store_blob_ids, rdoc_map>>
threadVars == <<loader, query, handler, hist>>
vars == <<storageVars, mapVars, ingester, retrieverVars, threadVars>>

-----------------------------------------------------------------------------
(* Bounds of the model *)

MaxBlobs == 8        \* capacity of the modelled remote store (a store beyond it fails)
MaxK == 2            \* largest k a query asks for
MaxRuns == 2         \* ingestion runs per behaviour
MaxBlobId == 2       \* largest blob id passed to the Document Map on its own

-----------------------------------------------------------------------------
(* Universe *)

None == [none |-> TRUE]
NotFound == 0

FileNames == {"alpha.txt", "beta.txt"}

\* Metadata dicts the callers pass to add_document (app.py:113-118, 185-191; ingest.py:84-88)
EmptyDict == [k \in {} |-> 0]
Metadatas == {[source |-> "web_upload"],
              [source |-> "web_append", updated |-> TRUE],
              [source |-> "ingest_script"]}

BadBytes == <<"0xFF">>
Decodable(bytes) == bytes # BadBytes

At(s, i) == s[i + 1]


-----------------------------------------------------------------------------
(* document_map.py *)

NoMapFile == [st |-> "absent", data |-> EmptyDict]
CorruptMapFile == [st |-> "corrupt", data |-> EmptyDict]

\* no DocumentMap call was made yet
NoMapHist == [added |-> [f \in FileNames |-> None], dm |-> EmptyDict, file |-> NoMapFile]

\* _load_map: the JSON dict of the file; {} when the file is missing or not JSON
load_map(file) == IF file.st = "ok" THEN file.data ELSE EmptyDict

\* save_map that dumps one record of the dict, not the dict
save_map_one_record(dm) ==
    LET kept == IF DOMAIN dm = {} THEN {} ELSE {CHOOSE f \in DOMAIN dm : TRUE}
    IN  [st |-> "ok", data |-> [f \in kept |-> dm[f]]]

\* save_map: json.dump of the whole in-memory dict over the file
save_map(dm) == [st |-> "ok", data |-> dm]

\* add_document without the key: the record lands under a fixed key
add_document_wrong_key(dm, filename, blob_id, metadata) ==
    LET key == CHOOSE f \in FileNames : TRUE
    IN  [f \in DOMAIN dm \cup {key} |->
            IF f = key
            THEN [blob_id |-> blob_id,
                  metadata |-> IF metadata = None THEN EmptyDict ELSE metadata]
            ELSE dm[f]]

\* add_document that updates the record in place: metadata keys of the earlier record
\* that the new metadata does not set stay
add_document_merging(dm, filename, blob_id, metadata) ==
    LET new == IF metadata = None THEN EmptyDict ELSE metadata
        old == IF filename \in DOMAIN dm THEN dm[filename].metadata ELSE EmptyDict
    IN  [f \in DOMAIN dm \cup {filename} |->
            IF f = filename
            THEN [blob_id |-> blob_id,
                  metadata |-> [k \in DOMAIN old \cup DOMAIN new |->
                                   IF k \in DOMAIN new THEN new[k] ELSE old[k]]]
            ELSE dm[f]]

\* add_document: self.document_map[filename] = {blob_id, timestamp, metadata}.
\* The timestamp (datetime.now()) is written and never read; it is left out.
add_document(dm, filename, blob_id, metadata) ==
    [f \in DOMAIN dm \cup {filename} |->
        IF f = filename
        THEN [blob_id |-> blob_id,
              metadata |-> IF metadata = None THEN EmptyDict ELSE metadata]
        ELSE dm[f]]

get_blob_id(dm, filename) ==
    IF filename \notin DOMAIN dm THEN NotFound ELSE dm[filename].blob_id

list_documents(dm) == DOMAIN dm

document_exists(dm, filename) == filename \in DOMAIN dm

\* remove_document without the membership test: reports a removal every time
remove_document_unguarded(dm, filename) ==
    [dm |-> [f \in DOMAIN dm \ {filename} |-> dm[f]], val |-> TRUE]

\* remove_document: [the dict afterwards, the value returned]
remove_document(dm, filename) ==
    IF filename \in DOMAIN dm
    THEN [dm |-> [f \in DOMAIN dm \ {filename} |-> dm[f]], val |-> TRUE]
    ELSE [dm |-> dm, val |-> FALSE]

-----------------------------------------------------------------------------
(* Texts and the TF-IDF transformer (sklearn TfidfVectorizer, default options: *)
(* raw term counts, idf = ln((1+n)/(1+df)) + 1, rows scaled to unit length).   *)
(* Weights are kept in fifths and rows are kept unscaled; distances            *)
(* between the scaled rows are compared exactly from dot products.             *)

\* every token of the model's texts, in the sorted order of vocabulary_
Terms == <<"and", "apples", "bananas", "cars", "fruit", "trucks">>
NewLine == "\n"

T_alpha == <<"apples", "and", "bananas">>
T_beta == <<"cars", "and", "trucks">>
T_more == <<"fruit">>

IsTerm(t) == \E i \in 1..Len(Terms) : Terms[i] = t

\* the analyzer: the word tokens of a text (the line break is no token)
Tokenize(text) == SelectSeq(text, IsTerm)

Count(t, toks) == Cardinality({i \in 1..Len(toks) : toks[i] = t})

\* round(5 * (ln((1+n)/(1+df)) + 1)) for 1 <= df <= n <= 5: idf_ in fifths, which keeps
\* every product of the distance comparison within TLC's 32-bit integers
IdfTable == <<
    <<5>>,
    <<7, 5>>,
    <<8, 6, 5>>,
    <<10, 8, 6, 5>>,
    <<10, 8, 7, 6, 5>> >>
idf(n, df) == IdfTable[n][df]

\* fit: vocabulary_ (sorted) and idf_ of a corpus; raised when no document has a token
fit(documents) ==
    LET n == Len(documents)
        used == {i \in 1..Len(Terms) :
                    \E j \in 1..n : Count(Terms[i], Tokenize(documents[j])) > 0}
        vocab == SelectSeq(Terms, LAMBDA t :
                    \E j \in 1..n : Count(t, Tokenize(documents[j])) > 0)
        docfreq(t) == Cardinality({j \in 1..n : Count(t, Tokenize(documents[j])) > 0})
    IN  IF used = {}
        THEN [raised |-> TRUE, vocab |-> <<>>, idf |-> <<>>]
        ELSE [raised |-> FALSE, vocab |-> vocab,
              idf |-> [i \in 1..Len(vocab) |-> idf(n, docfreq(vocab[i]))]]

\* transform: the (unscaled) TF-IDF row of one text; terms outside the vocabulary weigh 0
transform(vz, text) ==
    [i \in 1..Len(vz.vocab) |-> Count(vz.vocab[i], Tokenize(text)) * vz.idf[i]]

RECURSIVE DotTo(_, _, _)
DotTo(u, v, i) == IF i = 0 THEN 0 ELSE u[i] * v[i] + DotTo(u, v, i - 1)
Dot(u, v) == DotTo(u, v, Len(u))

\* squared L2 distance of the unit-scaled rows: is q nearer to v1 than to v2?
\*   dist(q, v) = [q # 0] + [v # 0] - 2 * (q.v) / (|q| |v|)
Nearer(q, v1, v2) ==
    LET nq == Dot(q, q)  n1 == Dot(v1, v1)  n2 == Dot(v2, v2)
        p1 == Dot(q, v1)  p2 == Dot(q, v2)
    IN  CASE n1 > 0 /\ n2 > 0 -> p1 * p1 * n2 > p2 * p2 * n1
          [] n1 = 0 /\ n2 = 0 -> FALSE
          [] n1 > 0 /\ n2 = 0 -> 4 * p1 * p1 > nq * n1
          [] n1 = 0 /\ n2 > 0 -> 4 * p2 * p2 < nq * n2

-----------------------------------------------------------------------------
(* faiss.IndexFlatL2 *)

\* index.add(embeddings): one row per document, in the order of the corpus
IndexFlatL2(d, rows) == [d |-> d, rows |-> rows]

ntotal(ix) == Len(ix.rows)

\* a search that lets the higher position win between rows of equal distance
search_ties_reversed(ix, q, k) ==
    LET n == ntotal(ix)
        before(j, i) == Nearer(q, ix.rows[j], ix.rows[i])
                        \/ (~Nearer(q, ix.rows[i], ix.rows[j]) /\ j > i)
        rank(i) == Cardinality({j \in 1..n : j # i /\ before(j, i)})
    IN  IF Len(q) # ix.d
        THEN [raised |-> TRUE, indices |-> <<>>]
        ELSE [raised |-> FALSE,
              indices |-> [r \in 1..k |->
                  IF r <= n THEN (CHOOSE i \in 1..n : rank(i) = r - 1) - 1 ELSE -1]]

\* index.search(query_embedding, k): the k nearest rows' positions (0-based), nearest
\* first, equal distances in index order, padded with -1 when fewer than k rows exist;
\* a query of another dimension than the index fails faiss's assertion.
search(ix, q, k) ==
    LET n == ntotal(ix)
        before(j, i) == Nearer(q, ix.rows[j], ix.rows[i])
                        \/ (~Nearer(q, ix.rows[i], ix.rows[j]) /\ j < i)
        rank(i) == Cardinality({j \in 1..n : j # i /\ before(j, i)})
    IN  IF Len(q) # ix.d
        THEN [raised |-> TRUE, indices |-> <<>>]
        ELSE [raised |-> FALSE,
              indices |-> [r \in 1..k |->
                  IF r <= n THEN (CHOOSE i \in 1..n : rank(i) = r - 1) - 1 ELSE -1]]

-----------------------------------------------------------------------------
(* Local files *)

NoFile == [absent |-> TRUE]
Corrupt == [corrupt |-> TRUE]
File(bytes) == [bytes |-> bytes]

DATA_DIR == "backend/data"      \* app.py:20, dirname(app.py)/data
data_dir == "data"              \* ingest.py:16, dirname(ingest.py)/../data
sub_dir == "data/sub"           \* a subdirectory of data_dir
Dirs == {DATA_DIR, data_dir, sub_dir}
Path(dir, name) == [dir |-> dir, name |-> name]
Paths == {Path(d, f) : d \in Dirs, f \in FileNames}

exists(files, path) == files[path] # NoFile

\* open(path, 'r', encoding='utf-8').read() raises on bytes that are no UTF-8 text
Readable(files, path) == exists(files, path) /\ Decodable(files[path].bytes)

\* supported_extensions: every file name of the model ends in .txt
supported(filename) == filename \in FileNames

-----------------------------------------------------------------------------
(* walrus_client.py: the remote blob store.  A request fails when the store *)
(* is down, when the network loses it (lucky = FALSE), when the blob id is  *)
(* unknown, or, for a store, when the modelled capacity is used up.         *)

DocBlob(bytes) == [kind |-> "doc", bytes |-> bytes]
ArtBlob(kind, art) == [kind |-> kind, art |-> art]

store_ok(bs, lucky) == ~walrusDown /\ lucky /\ Len(bs) < MaxBlobs
\* store_document: the store afterwards; the blob id returned is its new length
store_document(bs, payload) == Append(bs, payload)

retrieve_ok(bs, blob_id, lucky) == ~walrusDown /\ lucky /\ blob_id \in 1..Len(bs)
retrieve_document(bs, blob_id) == bs[blob_id]

\* retrieve_document(blob_id).decode('utf-8') succeeds on UTF-8 text only
decode_ok(payload) == payload.kind = "doc" /\ Decodable(payload.bytes)

\* ---- the methods of WalrusStorageClient on their own: what each of them makes of
\* ---- the response of the server

NoExchange == [op |-> "none"]

\* requests.post / requests.get raised: there is no response
NoResponse == [failed |-> "ConnectionError"]

\* a body that is no JSON text
NotJson == [text |-> "<html>"]
\* a "data" value that is no base64 text
NotB64 == [text |-> "???"]

\* base64.b64encode(...).decode('utf-8'), base64.b64decode: the text form of bytes
b64encode(bytes) == [b64 |-> bytes]
b64decode_ok(data) == "b64" \in DOMAIN data
b64decode(data) == data.b64

StatusCodes == {200, 201, 204, 401, 404, 500}

Returned(value) == [raised |-> FALSE, val |-> value]
Raised(kind) == [raised |-> TRUE, kind |-> kind]

\* a status test that lets every response through
status_unchecked(response) == TRUE

\* response.status_code == 200 (lines 48, 67, 84)
status_ok(response) == response.status_code = 200

\* response.json()[key]: raises on a body that is no JSON and on a missing key
json_key(response, key) ==
    IF response.body = NotJson THEN Raised("JSONDecodeError")
    ELSE IF key \notin DOMAIN response.body THEN Raised("KeyError")
    ELSE Returned(response.body[key])

\* store_document, lines 48-51
client_store_document(response) ==
    IF response = NoResponse THEN Raised("ConnectionError")
    ELSE IF status_ok(response) THEN json_key(response, "blob_id")
    ELSE Raised("Exception")

\* retrieve_document, lines 67-71
client_retrieve_document(response) ==
    IF response = NoResponse THEN Raised("ConnectionError")
    ELSE IF status_ok(response)
    THEN LET encoded_data == json_key(response, "data")
         IN  IF encoded_data.raised THEN encoded_data
             ELSE IF ~b64decode_ok(encoded_data.val) THEN Raised("binascii.Error")
             ELSE Returned(b64decode(encoded_data.val))
    ELSE Raised("Exception")

\* list_documents, lines 84-87
client_list_documents(response) ==
    IF response = NoResponse THEN Raised("ConnectionError")
    ELSE IF status_ok(response) THEN json_key(response, "blobs")
    ELSE Raised("Exception")

\* dict.get(key, default)
get(dict, key, default) == IF key \in DOMAIN dict THEN dict[key] ELSE default

\* blob.get('id') == blob_id, line 102
has_id(blob, blob_id) == IF "id" \in DOMAIN blob THEN blob.id = blob_id ELSE FALSE

\* lines 103-109: the descriptor built from an entry of the listing
Descriptor(blob_id, blob) ==
    [blob_id |-> blob_id,
     metadata |-> get(blob, "metadata", EmptyDict),
     timestamp |-> get(blob, "timestamp", None),
     size |-> get(blob, "size", None),
     blockchain_info |-> "Available in Sui wallet transactions"]

\* lines 117-122: the descriptor of a blob that is known to exist only
Degraded(blob_id) ==
    [blob_id |-> blob_id, exists |-> TRUE,
     message |-> "Blob exists but detailed metadata is not available",
     blockchain_info |-> "Available in Sui wallet transactions"]

\* get_blob_info without the second attempt: a blob the listing lacks is an error
client_get_blob_info_no_fallback(blob_id, list_response, retrieve_response) ==
    LET listing == client_list_documents(list_response)
        found == IF listing.raised THEN <<>>
                 ELSE SelectSeq(listing.val, LAMBDA blob : has_id(blob, blob_id))
    IN  IF found # <<>>
        THEN [raised |-> FALSE, val |-> Descriptor(blob_id, Head(found)),
              calls |-> <<"list_documents">>]
        ELSE [raised |-> TRUE, kind |-> "Exception", calls |-> <<"list_documents">>]

\* get_blob_info, lines 98-124; calls: the client methods it called, in order
client_get_blob_info(blob_id, list_response, retrieve_response) ==
    LET listing == client_list_documents(list_response)
        found == IF listing.raised THEN <<>>
                 ELSE SelectSeq(listing.val, LAMBDA blob : has_id(blob, blob_id))
        retrieved == client_retrieve_document(retrieve_response)
    IN  IF found # <<>>
        THEN [raised |-> FALSE, val |-> Descriptor(blob_id, Head(found)),
              calls |-> <<"list_documents">>]
        ELSE IF retrieved.raised
        THEN [raised |-> TRUE, kind |-> "Exception",
              calls |-> <<"list_documents", "retrieve_document">>]
        ELSE [raised |-> FALSE, val |-> Degraded(blob_id),
              calls |-> <<"list_documents", "retrieve_document">>]

-----------------------------------------------------------------------------
(* ingest.py *)

ArtifactNames == {"index", "vectorizer", "metadata"}

\* an artifact as a file, a blob or a field of the retriever holds it
Art(obj) == [obj |-> obj]

NoIngester == [pc |-> "none", use_walrus |-> FALSE, documents |-> <<>>,
               document_metadata |-> <<>>, doc_map |-> EmptyDict, index |-> None,
               fitted |-> None, origins |-> <<>>, success |-> FALSE, returned |-> <<>>,
               had |-> EmptyDict, fetched |-> {}, asked |-> FALSE]

\* DocumentIngester.__init__
DocumentIngester(use_walrus) ==
    [pc |-> "constructed", use_walrus |-> use_walrus,
     documents |-> <<>>, document_metadata |-> <<>>,
     doc_map |-> IF use_walrus THEN load_map(mapFile) ELSE EmptyDict,
     index |-> None, fitted |-> None,   \* the index and the fitted self.vectorizer
     origins |-> <<>>,          \* history: the file name each text was read under
     success |-> FALSE,         \* what save_artifacts_to_walrus returned
     returned |-> <<>>,         \* history: the blob ids its store requests returned
     had |-> EmptyDict,         \* history: the Document Map as load_documents found it
     fetched |-> {},            \* history: the file names whose remote fetch gave text
     asked |-> FALSE]           \* history: the run sent a request to the remote store

\* the state load_documents works on
LoadState(ing, bs, file) ==
    [documents |-> ing.documents, document_metadata |-> ing.document_metadata,
     origins |-> ing.origins, processed_files |-> {}, fetched |-> {},
     asked |-> ing.asked,
     doc_map |-> ing.doc_map, blobs |-> bs, mapFile |-> file]

\* the first loop with the metadata entry appended before the fetch
RECURSIVE load_from_walrus_early(_, _, _)
load_from_walrus_early(st, names, lucky) ==
    IF names = <<>> THEN st
    ELSE LET filename == Head(names)
             blob_id == get_blob_id(st.doc_map, filename)
             entry == [file_path |-> Path(data_dir, filename), file_name |-> filename,
                       blob_id |-> blob_id, source |-> "walrus"]
             got == retrieve_ok(st.blobs, blob_id, filename \in lucky)
                    /\ decode_ok(retrieve_document(st.blobs, blob_id))
             next ==
                IF ~supported(filename) \/ blob_id = NotFound THEN st
                ELSE IF ~got
                THEN [st EXCEPT !.document_metadata = Append(@, entry)]
                ELSE [st EXCEPT
                        !.documents = Append(@, retrieve_document(st.blobs, blob_id).bytes),
                        !.origins = Append(@, filename),
                        !.document_metadata = Append(@, entry),
                        !.processed_files = @ \cup {filename},
                        !.fetched = @ \cup {filename}]
         IN  load_from_walrus_early(next, Tail(names), lucky)

\* the first loop without line 56: a fetched name is not marked as processed
RECURSIVE load_from_walrus_unmarked(_, _, _)
load_from_walrus_unmarked(st, names, lucky) ==
    IF names = <<>> THEN st
    ELSE LET filename == Head(names)
             blob_id == get_blob_id(st.doc_map, filename)
             got == retrieve_ok(st.blobs, blob_id, filename \in lucky)
                    /\ decode_ok(retrieve_document(st.blobs, blob_id))
             next ==
                IF ~supported(filename) \/ blob_id = NotFound \/ ~got THEN st
                ELSE [st EXCEPT
                        !.documents = Append(@, retrieve_document(st.blobs, blob_id).bytes),
                        !.origins = Append(@, filename),
                        !.document_metadata = Append(@,
                            [file_path |-> Path(data_dir, filename), file_name |-> filename,
                             blob_id |-> blob_id, source |-> "walrus"]),
                        !.fetched = @ \cup {filename}]
         IN  load_from_walrus_unmarked(next, Tail(names), lucky)

\* load_documents, first loop (lines 39-59): the documents the Document Map knows,
\* fetched from the remote store; `names` is list_documents() in iteration order,
\* `lucky` the file names whose request the network serves
RECURSIVE load_from_walrus(_, _, _)
load_from_walrus(st, names, lucky) ==
    IF names = <<>> THEN st
    ELSE LET filename == Head(names)
             blob_id == get_blob_id(st.doc_map, filename)
             got == retrieve_ok(st.blobs, blob_id, filename \in lucky)
                    /\ decode_ok(retrieve_document(st.blobs, blob_id))
             next ==
                IF ~supported(filename) \/ blob_id = NotFound THEN st
                ELSE IF ~got THEN [st EXCEPT !.asked = TRUE]
                ELSE [st EXCEPT
                        !.documents = Append(@, retrieve_document(st.blobs, blob_id).bytes),
                        !.origins = Append(@, filename),
                        !.document_metadata = Append(@,
                            [file_path |-> Path(data_dir, filename), file_name |-> filename,
                             blob_id |-> blob_id, source |-> "walrus"]),
                        !.processed_files = @ \cup {filename},
                        !.fetched = @ \cup {filename},
                        !.asked = TRUE]
         IN  load_from_walrus(next, Tail(names), lucky)

\* the second loop storing every file it reads, whatever use_walrus says
RECURSIVE load_from_local_storing(_, _, _, _, _)
load_from_local_storing(st, use_walrus, files, paths, lucky) ==
    IF paths = <<>> THEN st
    ELSE LET file_path == Head(paths)
             file == file_path.name
             content == files[file_path].bytes
             metadata == [source |-> "ingest_script"]
             loaded == [st EXCEPT
                          !.documents = Append(@, content),
                          !.origins = Append(@, file),
                          !.document_metadata = Append(@,
                              [file_path |-> file_path, file_name |-> file,
                               source |-> "local"])]
             new_map == add_document(loaded.doc_map, file, Len(loaded.blobs) + 1, metadata)
             next ==
                IF file \in st.processed_files \/ ~supported(file)
                   \/ ~Readable(files, file_path)
                THEN st
                ELSE IF store_ok(loaded.blobs, use_walrus => file_path \in lucky)
                THEN [loaded EXCEPT
                        !.blobs = store_document(@, DocBlob(content)),
                        !.doc_map = new_map,
                        !.mapFile = save_map(new_map),
                        !.asked = TRUE]
                ELSE [loaded EXCEPT !.asked = TRUE]
         IN  load_from_local_storing(next, use_walrus, files, Tail(paths), lucky)

\* load_documents, second loop (lines 63-97): os.walk(data_dir); `paths` is the walk
\* in iteration order, `lucky` the paths whose store request the network serves
RECURSIVE load_from_local(_, _, _, _, _)
load_from_local(st, use_walrus, files, paths, lucky) ==
    IF paths = <<>> THEN st
    ELSE LET file_path == Head(paths)
             file == file_path.name
             content == files[file_path].bytes
             metadata == [source |-> "ingest_script"]
             loaded == [st EXCEPT
                          !.documents = Append(@, content),
                          !.origins = Append(@, file),
                          !.document_metadata = Append(@,
                              [file_path |-> file_path, file_name |-> file,
                               source |-> "local"])]
             new_map == add_document(loaded.doc_map, file, Len(loaded.blobs) + 1, metadata)
             next ==
                IF file \in st.processed_files \/ ~supported(file)
                   \/ ~Readable(files, file_path)
                THEN st
                ELSE IF use_walrus /\ store_ok(loaded.blobs, file_path \in lucky)
                THEN [loaded EXCEPT
                        !.blobs = store_document(@, DocBlob(content)),
                        !.doc_map = new_map,
                        !.mapFile = save_map(new_map),
                        !.asked = TRUE]
                ELSE [loaded EXCEPT !.asked = @ \/ use_walrus]
         IN  load_from_local(next, use_walrus, files, Tail(paths), lucky)

\* all orders in which a loop can visit the elements of S
Orders(S) == {o \in [1..Cardinality(S) -> S] : \A i, j \in 1..Cardinality(S) :
                                                    i # j => o[i] # o[j]}

\* os.walk(data_dir), top-down: the files of data_dir, then those of its subdirectory
Walks(files) ==
    LET top == {p \in Paths : p.dir = data_dir /\ exists(files, p)}
        sub == {p \in Paths : p.dir = sub_dir /\ exists(files, p)}
    IN  {a \o b : a \in Orders(top), b \in Orders(sub)}

\* the artifacts create_embeddings builds from the loaded corpus (lines 105-112)
Embeddings(documents) ==
    LET vz == fit(documents)
    IN  [raised |-> vz.raised,
         vectorizer |-> [vocab |-> vz.vocab, idf |-> vz.idf],
         index |-> IndexFlatL2(Len(vz.vocab),
                               [i \in 1..Len(documents) |-> transform(vz, documents[i])])]

\* _load_vector_store_blob_ids: the dict of the side-table file ({} when it is missing)
load_vector_store_blob_ids(file) == file

\* save_artifacts_to_walrus (lines 121-158): store the index, the vectorizer and the
\* metadata in this order, each id into self.vector_store_blob_ids; the first failing
\* store ends it (return False); after the third, _save_vector_store_blob_ids
\* save_artifacts_to_walrus without the last step: the side-table is not persisted
RECURSIVE save_artifacts_to_walrus_unsaved(_, _, _)
save_artifacts_to_walrus_unsaved(st, todo, lucky) ==
    IF todo = <<>> THEN [st EXCEPT !.success = TRUE]
    ELSE LET name == Head(todo)
         IN  IF ~store_ok(st.blobs, name \in lucky)
             THEN [st EXCEPT !.success = FALSE]
             ELSE save_artifacts_to_walrus_unsaved(
                    [st EXCEPT !.blobs = store_document(@, ArtBlob(name, st.arts[name])),
                               !.ids = [k \in DOMAIN @ \cup {name} |->
                                           IF k = name THEN Len(st.blobs) + 1 ELSE @[k]]],
                    Tail(todo), lucky)

\* the remote save that rewrites the side-table after every store
RECURSIVE save_artifacts_to_walrus_eager(_, _, _)
save_artifacts_to_walrus_eager(st, todo, lucky) ==
    IF todo = <<>> THEN [st EXCEPT !.idsFile = st.ids, !.success = TRUE]
    ELSE LET name == Head(todo)
             ids == [k \in DOMAIN st.ids \cup {name} |->
                        IF k = name THEN Len(st.blobs) + 1 ELSE st.ids[k]]
         IN  IF ~store_ok(st.blobs, name \in lucky)
             THEN [st EXCEPT !.success = FALSE]
             ELSE save_artifacts_to_walrus_eager(
                    [st EXCEPT !.blobs = store_document(@, ArtBlob(name, st.arts[name])),
                               !.ids = ids, !.idsFile = ids],
                    Tail(todo), lucky)

RECURSIVE save_artifacts_to_walrus(_, _, _)
save_artifacts_to_walrus(st, todo, lucky) ==
    IF todo = <<>> THEN [st EXCEPT !.idsFile = st.ids, !.success = TRUE]
    ELSE LET name == Head(todo)
         IN  IF ~store_ok(st.blobs, name \in lucky)
             THEN [st EXCEPT !.success = FALSE]
             ELSE save_artifacts_to_walrus(
                    [st EXCEPT !.blobs = store_document(@, ArtBlob(name, st.arts[name])),
                               !.ids = [k \in DOMAIN @ \cup {name} |->
                                           IF k = name THEN Len(st.blobs) + 1 ELSE @[k]]],
                    Tail(todo), lucky)

SaveOrder == <<"index", "vectorizer", "metadata">>

\* the store requests the network serves, up to the first one it refuses
ServedStores == {{SaveOrder[i] : i \in 1..n} : n \in 0..Len(SaveOrder)}

-----------------------------------------------------------------------------
(* retriever.py: retrieve_documents *)

\* Python list indexing: a negative position counts from the end
PyAt(list, idx) == IF idx >= 0 THEN list[idx + 1] ELSE list[Len(list) + idx + 1]

Result(content, doc_info, source) ==
    [content |-> content, file_name |-> doc_info.file_name,
     file_path |-> doc_info.file_path, source |-> source]

\* content resolution that reads the local file first
resolve_local_first(doc_info, dm, bs, files, lucky) ==
    LET blob_id == get_blob_id(dm, doc_info.file_name)
        remote_ok == retrieve_ok(bs, blob_id, lucky)
                     /\ decode_ok(retrieve_document(bs, blob_id))
    IN  IF Readable(files, doc_info.file_path)
        THEN [docs |-> <<Result(files[doc_info.file_path].bytes, doc_info, "local")>>,
              remote |-> "skipped", read_local |-> TRUE, raised |-> FALSE]
        ELSE IF blob_id # NotFound /\ remote_ok
        THEN [docs |-> <<Result(retrieve_document(bs, blob_id).bytes, doc_info, "walrus")>>,
              remote |-> "ok", read_local |-> exists(files, doc_info.file_path),
              raised |-> FALSE]
        ELSE [docs |-> <<>>, remote |-> IF blob_id # NotFound THEN "failed" ELSE "skipped",
              read_local |-> exists(files, doc_info.file_path), raised |-> FALSE]

\* content resolution whose inner try does not cover the remote request
resolve_uncaught(doc_info, dm, bs, files, lucky) ==
    LET blob_id == get_blob_id(dm, doc_info.file_name)
        remote_ok == retrieve_ok(bs, blob_id, lucky)
                     /\ decode_ok(retrieve_document(bs, blob_id))
    IN  IF blob_id # NotFound /\ remote_ok
        THEN [docs |-> <<Result(retrieve_document(bs, blob_id).bytes, doc_info, "walrus")>>,
              remote |-> "ok", read_local |-> FALSE, raised |-> FALSE]
        ELSE IF blob_id # NotFound
        THEN [docs |-> <<>>, remote |-> "failed", read_local |-> FALSE, raised |-> TRUE]
        ELSE IF Readable(files, doc_info.file_path)
        THEN [docs |-> <<Result(files[doc_info.file_path].bytes, doc_info, "local")>>,
              remote |-> "skipped", read_local |-> TRUE, raised |-> FALSE]
        ELSE [docs |-> <<>>, remote |-> "skipped",
              read_local |-> exists(files, doc_info.file_path), raised |-> FALSE]

\* content resolution whose outer try does not cover the local read
resolve_unreadable_raises(doc_info, dm, bs, files, lucky) ==
    LET blob_id == get_blob_id(dm, doc_info.file_name)
        remote_ok == retrieve_ok(bs, blob_id, lucky)
                     /\ decode_ok(retrieve_document(bs, blob_id))
    IN  IF blob_id # NotFound /\ remote_ok
        THEN [docs |-> <<Result(retrieve_document(bs, blob_id).bytes, doc_info, "walrus")>>,
              remote |-> "ok", read_local |-> FALSE, raised |-> FALSE]
        ELSE IF Readable(files, doc_info.file_path)
        THEN [docs |-> <<Result(files[doc_info.file_path].bytes, doc_info, "local")>>,
              remote |-> IF blob_id # NotFound THEN "failed" ELSE "skipped",
              read_local |-> TRUE, raised |-> FALSE]
        ELSE [docs |-> <<>>, remote |-> IF blob_id # NotFound THEN "failed" ELSE "skipped",
              read_local |-> exists(files, doc_info.file_path),
              raised |-> exists(files, doc_info.file_path)]

\* lines 180-211, one hit: what it appends to relevant_docs, whether the remote store
\* was asked and with what outcome, whether the local file was opened, and whether an
\* exception left the loop body
resolve(doc_info, dm, bs, files, lucky) ==
    LET blob_id == get_blob_id(dm, doc_info.file_name)
        remote_ok == retrieve_ok(bs, blob_id, lucky)
                     /\ decode_ok(retrieve_document(bs, blob_id))
    IN  IF blob_id # NotFound /\ remote_ok
        THEN [docs |-> <<Result(retrieve_document(bs, blob_id).bytes, doc_info, "walrus")>>,
              remote |-> "ok", read_local |-> FALSE, raised |-> FALSE]
        ELSE IF Readable(files, doc_info.file_path)
        THEN [docs |-> <<Result(files[doc_info.file_path].bytes, doc_info, "local")>>,
              remote |-> IF blob_id # NotFound THEN "failed" ELSE "skipped",
              read_local |-> TRUE, raised |-> FALSE]
        ELSE [docs |-> <<>>, remote |-> IF blob_id # NotFound THEN "failed" ELSE "skipped",
              read_local |-> exists(files, doc_info.file_path), raised |-> FALSE]

-----------------------------------------------------------------------------
(* retriever.py: load_artifacts, one step per assignment to a field *)

NextArtifact(name) == CASE name = "index" -> "vectorizer"
                        [] name = "vectorizer" -> "metadata"
                        [] OTHER -> "done"

field(name) == CASE name = "index" -> index
                 [] name = "vectorizer" -> vectorizer
                 [] OTHER -> document_metadata

SetField(name, value) ==
    /\ index' = IF name = "index" THEN value ELSE index
    /\ vectorizer' = IF name = "vectorizer" THEN value ELSE vectorizer
    /\ document_metadata' = IF name = "metadata" THEN value ELSE document_metadata

IdleLoader == [pc |-> "idle", at |-> "done",
               \* history of this call, for the claims
               remote_failed |-> FALSE,    \* the remote attempt was given up
               fetched |-> {},             \* artifacts the remote attempt assigned
               src |-> [n \in ArtifactNames |-> "kept"]]   \* where each field is from

\* the call of load_artifacts: the fields still hold what they held before it
StartedLoader == [IdleLoader EXCEPT !.pc = "start"]

\* line 51 with any() for all(): one name in the side-table is enough
remote_known_any(ids) == DOMAIN ids # {}

\* line 51: the side-table names all three artifacts
remote_known(ids) == DOMAIN ids # {} /\ ArtifactNames \subseteq DOMAIN ids

Loading == loader.pc \notin {"idle", "done"}

\* where a raising statement of load_artifacts continues: the inner except of the
\* remote attempt (lines 75-77) goes on to the local load, the outer except
\* (lines 109-113) clears the fields; nothing is re-raised
load_failure(phase) == IF phase = "remote" THEN "local" ELSE "except"

LoadStart ==
    /\ loader.pc = "start"
    /\ loader' = [loader EXCEPT
                    !.pc = IF remote_known(vector_store_blob_ids) THEN "remote" ELSE "local",
                    !.at = "index"]
    /\ query' = [query EXCEPT !.reloaded = TRUE]
    /\ hist' = [hist EXCEPT !.prev = None]
    /\ UNCHANGED <<storageVars, mapVars, ingester, retrieverVars, handler>>

\* a remote attempt that replaces only the artifact it failed on by the local file
LoadRemote_partial(name) ==
    /\ loader.pc = "remote" /\ loader.at = name
    /\ \E lucky \in BOOLEAN :
        LET blob_id == vector_store_blob_ids[name]
            ok == retrieve_ok(blobs, blob_id, lucky)
                  /\ retrieve_document(blobs, blob_id).kind = name
            local == IF storeFiles[name] \in {NoFile, Corrupt} THEN None ELSE storeFiles[name]
        IN  /\ SetField(name, IF ok THEN retrieve_document(blobs, blob_id).art ELSE local)
            /\ loader' = [loader EXCEPT
                    !.src[name] = IF ok THEN "remote" ELSE IF local = None THEN "absent"
                                  ELSE "local",
                    !.fetched = IF ok THEN @ \cup {name} ELSE @,
                    !.remote_failed = @ \/ ~ok,
                    !.at = NextArtifact(name),
                    !.pc = IF NextArtifact(name) = "done" THEN "done" ELSE "remote"]
    /\ UNCHANGED <<storageVars, mapVars, ingester, vector_store_blob_ids, rdoc_map,
                   query, handler, hist>>

\* lines 56-72: fetch one artifact by its blob id and deserialize it into its field;
\* any failure leaves the remote attempt (lines 75-77)
LoadRemote(name) ==
    /\ loader.pc = "remote" /\ loader.at = name
    /\ \E lucky \in BOOLEAN :
        LET blob_id == vector_store_blob_ids[name]
            ok == retrieve_ok(blobs, blob_id, lucky)
                  /\ retrieve_document(blobs, blob_id).kind = name
        IN  IF ok
            THEN /\ SetField(name, retrieve_document(blobs, blob_id).art)
                 /\ loader' = [loader EXCEPT
                        !.src[name] = "remote",
                        !.fetched = @ \cup {name},
                        !.at = NextArtifact(name),
                        !.pc = IF NextArtifact(name) = "done" THEN "done" ELSE "remote"]
            ELSE /\ UNCHANGED <<index, vectorizer, document_metadata>>
                 /\ loader' = [loader EXCEPT !.pc = load_failure("remote"), !.at = "index",
                                             !.remote_failed = TRUE]
    /\ UNCHANGED <<storageVars, mapVars, ingester, vector_store_blob_ids, rdoc_map,
                   query, handler, hist>>

\* lines 83-107, one artifact: the local file's object, None when the file is missing
load_local(name, file) == IF file = NoFile THEN None ELSE file

\* lines 82-107: a file that does not deserialize raises into the outer except
LoadLocal(name) ==
    /\ loader.pc = "local" /\ loader.at = name
    /\ IF storeFiles[name] = Corrupt
       THEN /\ UNCHANGED <<index, vectorizer, document_metadata>>
            /\ loader' = [loader EXCEPT !.pc = load_failure("local"), !.at = "index"]
       ELSE /\ SetField(name, load_local(name, storeFiles[name]))
            /\ loader' = [loader EXCEPT
                    !.src[name] = IF storeFiles[name] # NoFile THEN "local"
                                  ELSE IF load_local(name, storeFiles[name]) = None
                                  THEN "absent"
                                  ELSE @,
                    !.at = NextArtifact(name),
                    !.pc = IF NextArtifact(name) = "done" THEN "done" ELSE "local"]
    /\ UNCHANGED <<storageVars, mapVars, ingester, vector_store_blob_ids, rdoc_map,
                   query, handler, hist>>

\* lines 109-113: the three fields are set to None one after the other
LoadExcept(name) ==
    /\ loader.pc = "except" /\ loader.at = name
    /\ SetField(name, None)
    /\ loader' = [loader EXCEPT
            !.src[name] = "absent",
            !.at = NextArtifact(name),
            !.pc = IF NextArtifact(name) = "done" THEN "done" ELSE "except"]
    /\ UNCHANGED <<storageVars, mapVars, ingester, vector_store_blob_ids, rdoc_map,
                   query, handler, hist>>

-----------------------------------------------------------------------------
(* retriever.py: retrieve_documents, one step per read of a field *)

Queries == {T_more, T_alpha}

IdleQuery ==
    [pc |-> "idle", text |-> <<>>, k |-> 0,
     query_embedding |-> <<>>, indices |-> <<>>, i |-> 0, relevant_docs |-> <<>>,
     raised |-> "none",
     \* history of this call, for the claims
     reloaded |-> FALSE,       \* load_artifacts ran during the call
     absent |-> FALSE,         \* the guard found a field missing
     used |-> [n \in ArtifactNames |-> {}],   \* the artifacts it computed with
     asked_remote |-> FALSE,   \* it sent a request to the remote store
     opened_file |-> FALSE,    \* it looked at a document file
     from |-> <<>>,            \* position in indices of the hit behind each result
     obs |-> None]             \* what the last hit found in storage and did with it

QueryStart(text, k) ==
    /\ query.pc = "idle"
    /\ handler.pc \notin {"offline", "starting"}
    /\ query' = [IdleQuery EXCEPT !.pc = "guard", !.text = text, !.k = k,
                                  !.reloaded = Loading]
    /\ UNCHANGED <<storageVars, mapVars, ingester, retrieverVars, loader, handler, hist>>

\* the call has returned or raised: the chat handler answers
QueryExit ==
    /\ query.pc \in {"done", "raised"}
    /\ query' = IdleQuery
    /\ hist' = [hist EXCEPT !.prev = None]
    /\ UNCHANGED <<storageVars, mapVars, ingester, retrieverVars, loader, handler>>

\* a call whose result list is the one the call before left behind
QueryRepeat_accumulating(text, k) ==
    /\ query.pc = "done"
    /\ handler.pc \notin {"offline", "starting"}
    /\ query' = [IdleQuery EXCEPT !.pc = "guard", !.text = text, !.k = k,
                                  !.reloaded = Loading,
                                  !.relevant_docs = query.relevant_docs,
                                  !.from = query.from]
    /\ hist' = [hist EXCEPT !.prev =
                    IF ~query.reloaded /\ ~Loading
                    THEN [text |-> query.text, k |-> query.k, indices |-> query.indices,
                          relevant_docs |-> query.relevant_docs]
                    ELSE None]
    /\ UNCHANGED <<storageVars, mapVars, ingester, retrieverVars, loader, handler>>

\* the next call follows a call that returned (line 176 starts it on an empty list);
\* hist.prev keeps what the call before returned
QueryRepeat(text, k) ==
    /\ query.pc = "done"
    /\ handler.pc \notin {"offline", "starting"}
    /\ query' = [IdleQuery EXCEPT !.pc = "guard", !.text = text, !.k = k,
                                  !.reloaded = Loading]
    /\ hist' = [hist EXCEPT !.prev =
                    IF ~query.reloaded /\ ~Loading
                    THEN [text |-> query.text, k |-> query.k, indices |-> query.indices,
                          relevant_docs |-> query.relevant_docs]
                    ELSE None]
    /\ UNCHANGED <<storageVars, mapVars, ingester, retrieverVars, loader, handler>>

\* retrieve_documents without its line-165 test
guard_skipped(ix, vz, md) == FALSE

\* line 165: not self.index or not self.vectorizer or not self.document_metadata
guard(ix, vz, md) == ix = None \/ vz = None \/ md = None \/ Len(md.obj) = 0

\* The three reads of line 165 happen in one step: the fields it tests are read
\* again, one by one, by the lines that use them.
QueryGuard ==
    /\ query.pc = "guard"
    /\ query' = IF guard(index, vectorizer, document_metadata)
                THEN [query EXCEPT !.pc = "done", !.absent = TRUE]
                ELSE [query EXCEPT !.pc = "embed"]
    /\ UNCHANGED <<storageVars, mapVars, ingester, retrieverVars, loader, handler, hist>>

\* line 170: self.vectorizer.transform([query])
QueryEmbed ==
    /\ query.pc = "embed"
    /\ query' = IF vectorizer = None
                THEN [query EXCEPT !.pc = "raised", !.raised = "AttributeError"]
                ELSE [query EXCEPT !.pc = "search",
                        !.query_embedding = transform(vectorizer.obj, query.text),
                        !.used["vectorizer"] = @ \cup {vectorizer}]
    /\ UNCHANGED <<storageVars, mapVars, ingester, retrieverVars, loader, handler, hist>>

\* line 173: self.index.search(query_embedding, k)
QuerySearch ==
    /\ query.pc = "search"
    /\ query' =
        IF index = None
        THEN [query EXCEPT !.pc = "raised", !.raised = "AttributeError"]
        ELSE LET found == search(index.obj, query.query_embedding, query.k)
             IN  IF found.raised
                 THEN [query EXCEPT !.pc = "raised", !.raised = "AssertionError",
                                    !.used["index"] = @ \cup {index}]
                 ELSE [query EXCEPT !.pc = "loop", !.indices = found.indices,
                                    !.used["index"] = @ \cup {index}]
    /\ UNCHANGED <<storageVars, mapVars, ingester, retrieverVars, loader, handler, hist>>

\* lines 177-211, one index of indices[0]
QueryHit ==
    /\ query.pc = "loop" /\ query.i < Len(query.indices)
    /\ \E lucky \in BOOLEAN :
        LET idx == At(query.indices, query.i)
        IN  IF document_metadata = None
            THEN query' = [query EXCEPT !.pc = "raised", !.raised = "TypeError"]
            ELSE IF ~(idx < Len(document_metadata.obj))
            THEN query' = [query EXCEPT !.i = @ + 1, !.obs = None,
                                        !.used["metadata"] = @ \cup {document_metadata}]
            ELSE LET doc_info == PyAt(document_metadata.obj, idx)
                     r == resolve(doc_info, rdoc_map, blobs, dataFiles, lucky)
                     blob_id == get_blob_id(rdoc_map, doc_info.file_name)
                 IN  query' = [query EXCEPT
                        !.i = @ + 1,
                        !.pc = IF r.raised THEN "raised" ELSE @,
                        !.raised = IF r.raised THEN "storage" ELSE @,
                        !.relevant_docs = @ \o r.docs,
                        !.from = @ \o [j \in 1..Len(r.docs) |-> query.i],
                        !.used["metadata"] = @ \cup {document_metadata},
                        !.asked_remote = @ \/ r.remote # "skipped",
                        !.opened_file = @ \/ r.read_local,
                        !.obs = [idx |-> idx, doc_info |-> doc_info,
                                 before |-> Len(query.relevant_docs),
                                 down |-> walrusDown,
                                 blob_id |-> blob_id,
                                 read_local |-> r.read_local,
                                 remote |-> IF blob_id # NotFound
                                               /\ retrieve_ok(blobs, blob_id, lucky)
                                            THEN retrieve_document(blobs, blob_id)
                                            ELSE None,
                                 local |-> dataFiles[doc_info.file_path]]]
    /\ UNCHANGED <<storageVars, mapVars, ingester, retrieverVars, loader, handler, hist>>

\* line 213
QueryReturn ==
    /\ query.pc = "loop" /\ query.i = Len(query.indices)
    /\ query' = [query EXCEPT !.pc = "done"]
    /\ UNCHANGED <<storageVars, mapVars, ingester, retrieverVars, loader, handler, hist>>

-----------------------------------------------------------------------------
(* ingest.py: one ingestion process at a time (python ingest.py [--no-walrus]) *)

IngesterRunning == ingester.pc \in {"constructed", "loaded"}

\* load_documents (lines 33-97)
LoadDocuments ==
    /\ ingester.pc = "constructed"
    /\ \E names \in Orders(list_documents(ingester.doc_map)),
          walk \in Walks(dataFiles),
          luckyR \in SUBSET list_documents(ingester.doc_map),
          luckyS \in IF ingester.use_walrus
                     THEN SUBSET {pa \in Paths : pa.dir # DATA_DIR /\ Readable(dataFiles, pa)}
                     ELSE {{}} :
        LET st0 == LoadState(ingester, blobs, mapFile)
            st1 == IF ingester.use_walrus THEN load_from_walrus(st0, names, luckyR) ELSE st0
            st2 == load_from_local(st1, ingester.use_walrus, dataFiles, walk, luckyS)
        IN  /\ ingester' = [ingester EXCEPT
                    !.pc = "loaded",
                    !.documents = st2.documents,
                    !.document_metadata = st2.document_metadata,
                    !.origins = st2.origins,
                    !.had = ingester.doc_map,
                    !.fetched = st2.fetched,
                    !.asked = st2.asked,
                    !.doc_map = st2.doc_map]
            /\ blobs' = st2.blobs
            /\ mapFile' = st2.mapFile
            /\ lastAdd' = [f \in FileNames |->
                    IF get_blob_id(st2.doc_map, f) # get_blob_id(ingester.doc_map, f)
                    THEN get_blob_id(st2.doc_map, f) ELSE lastAdd[f]]
    /\ UNCHANGED <<walrusDown, http, dataFiles, idsFile, storeFiles, document_map, ret,
                   mapHist, retrieverVars, threadVars>>

\* create_embeddings that keeps the local files of before when the remote save fails
CreateEmbeddings_remote_gated ==
    /\ ingester.pc = "loaded"
    /\ \E lucky \in IF ingester.use_walrus /\ ingester.documents # <<>>
                    THEN ServedStores ELSE {{}} :
        LET e == Embeddings(ingester.documents)
            arts == [index |-> Art(e.index),
                     vectorizer |-> Art(e.vectorizer),
                     metadata |-> Art(ingester.document_metadata)]
            saved == save_artifacts_to_walrus(
                        [blobs |-> blobs, arts |-> arts,
                         ids |-> load_vector_store_blob_ids(idsFile),
                         idsFile |-> idsFile, success |-> FALSE],
                        SaveOrder, lucky)
        IN  IF ingester.documents = <<>>
            THEN /\ ingester' = [ingester EXCEPT !.pc = "done"]
                 /\ UNCHANGED <<blobs, idsFile, storeFiles, hist>>
            ELSE IF e.raised
            THEN /\ ingester' = [ingester EXCEPT !.pc = "raised"]
                 /\ UNCHANGED <<blobs, idsFile, storeFiles, hist>>
            ELSE /\ ingester' = [ingester EXCEPT
                        !.pc = "done", !.index = e.index, !.fitted = e.vectorizer,
                        !.success = ingester.use_walrus /\ saved.success,
                        !.asked = @ \/ ingester.use_walrus,
                        !.returned = IF ingester.use_walrus
                                     THEN [i \in 1..(Len(saved.blobs) - Len(blobs)) |->
                                              Len(blobs) + i]
                                     ELSE <<>>]
                 /\ storeFiles' = IF ingester.use_walrus /\ ~saved.success
                                  THEN storeFiles ELSE arts
                 /\ hist' = [hist EXCEPT !.sets = @ \cup {storeFiles'}]
                 /\ IF ingester.use_walrus
                    THEN blobs' = saved.blobs /\ idsFile' = saved.idsFile
                    ELSE UNCHANGED <<blobs, idsFile>>
    /\ UNCHANGED <<walrusDown, http, dataFiles, mapFile, mapVars, retrieverVars, loader, query,
                   handler>>

\* create_embeddings (lines 99-139), with the DocumentRetriever it constructs to
\* store the artifacts remotely (retriever.py lines 11-28, 115-158)
CreateEmbeddings ==
    /\ ingester.pc = "loaded"
    /\ \E lucky \in IF ingester.use_walrus /\ ingester.documents # <<>>
                    THEN ServedStores ELSE {{}} :
        LET e == Embeddings(ingester.documents)
            arts == [index |-> Art(e.index),
                     vectorizer |-> Art(e.vectorizer),
                     metadata |-> Art(ingester.document_metadata)]
            saved == save_artifacts_to_walrus(
                        [blobs |-> blobs, arts |-> arts,
                         ids |-> load_vector_store_blob_ids(idsFile),
                         idsFile |-> idsFile, success |-> FALSE],
                        SaveOrder, lucky)
        IN  IF ingester.documents = <<>>
            THEN /\ ingester' = [ingester EXCEPT !.pc = "done"]
                 /\ UNCHANGED <<blobs, idsFile, storeFiles, hist>>
            ELSE IF e.raised
            THEN /\ ingester' = [ingester EXCEPT !.pc = "raised"]
                 /\ UNCHANGED <<blobs, idsFile, storeFiles, hist>>
            ELSE /\ ingester' = [ingester EXCEPT
                        !.pc = "done", !.index = e.index, !.fitted = e.vectorizer,
                        !.success = ingester.use_walrus /\ saved.success,
                        !.asked = @ \/ ingester.use_walrus,
                        !.returned = IF ingester.use_walrus
                                     THEN [i \in 1..(Len(saved.blobs) - Len(blobs)) |->
                                              Len(blobs) + i]
                                     ELSE <<>>]
                 /\ storeFiles' = arts
                 /\ hist' = [hist EXCEPT !.sets = @ \cup {arts}]
                 /\ IF ingester.use_walrus
                    THEN blobs' = saved.blobs /\ idsFile' = saved.idsFile
                    ELSE UNCHANGED <<blobs, idsFile>>
    /\ UNCHANGED <<walrusDown, http, dataFiles, mapFile, mapVars, retrieverVars, loader, query,
                   handler>>

\* python ingest.py [--no-walrus] from the command line, before the web process starts
CliIngest(use_walrus) ==
    /\ handler.pc = "offline" /\ ~IngesterRunning
    /\ hist.runs < MaxRuns
    /\ ingester' = DocumentIngester(use_walrus)
    /\ hist' = [hist EXCEPT !.runs = @ + 1]
    /\ UNCHANGED <<storageVars, mapVars, retrieverVars, loader, query, handler>>

-----------------------------------------------------------------------------
(* app.py *)

\* module level (lines 24-41): doc_map = DocumentMap(); rag_bot = RAGChatbot(), whose
\* DocumentRetriever.__init__ reads the side-table and the Document Map once and
\* calls load_artifacts
StartApp ==
    /\ handler.pc = "offline" /\ ~IngesterRunning
    /\ handler' = [handler EXCEPT !.pc = "starting"]
    /\ ingester' = NoIngester
    /\ document_map' = load_map(mapFile)
    /\ lastAdd' = [f \in FileNames |-> get_blob_id(load_map(mapFile), f)]
    /\ UNCHANGED mapHist
    /\ index' = None /\ vectorizer' = None /\ document_metadata' = None
    /\ vector_store_blob_ids' = load_vector_store_blob_ids(idsFile)
    /\ rdoc_map' = load_map(mapFile)
    /\ loader' = StartedLoader
    /\ UNCHANGED <<storageVars, ret, query, hist>>

UploadTexts == {T_beta}

\* what a request was given and found: the record and the local file of before, and
\* the blob id its store returned (NotFound: nothing was stored)
Request(op, filename, content, blob_id) ==
    [op |-> op, filename |-> filename, content |-> content,
     prev_id |-> get_blob_id(document_map, filename),
     prev_file |-> dataFiles[Path(DATA_DIR, filename)],
     blob_id |-> blob_id]

\* upload_txt_file up to the ingestion (lines 107-133, 146-151): store the content
\* remotely, record the blob id, save the file under DATA_DIR; when the store fails,
\* save the file only
Upload(filename, file_content) ==
    /\ handler.pc = "idle"
    /\ hist.runs < MaxRuns
    /\ \E lucky \in BOOLEAN :
        IF store_ok(blobs, lucky)
        THEN /\ blobs' = store_document(blobs, DocBlob(file_content))
             /\ document_map' = add_document(document_map, filename, Len(blobs) + 1,
                                             [source |-> "web_upload"])
             /\ mapFile' = save_map(document_map')
             /\ lastAdd' = [lastAdd EXCEPT ![filename] = Len(blobs) + 1]
             /\ UNCHANGED mapHist
             /\ handler' = [handler EXCEPT !.pc = "ingest", !.use_walrus = TRUE,
                    !.req = Request("upload", filename, file_content, Len(blobs) + 1)]
        ELSE /\ UNCHANGED <<blobs, document_map, mapFile, lastAdd, mapHist>>
             /\ handler' = [handler EXCEPT !.pc = "ingest", !.use_walrus = FALSE,
                    !.req = Request("upload", filename, file_content, NotFound)]
    /\ dataFiles' = [dataFiles EXCEPT ![Path(DATA_DIR, filename)] = File(file_content)]
    /\ UNCHANGED <<walrusDown, http, idsFile, storeFiles, ret, ingester, retrieverVars,
                   loader, query, hist>>

AppendTexts == {T_more}

\* append with the old content left out: the new content is the appended text
appended_alone(existing_content, content) == content

\* lines 183 / 212: new_content = existing_content + '\n' + content
appended(existing_content, content) == existing_content \o <<NewLine>> \o content

\* lines 248-249: open(file_path, 'a').write('\n' + content); bytes that are no text
\* stay no text whatever is written after them
append_bytes(bytes, content) ==
    IF Decodable(bytes) THEN bytes \o <<NewLine>> \o content ELSE BadBytes

\* append_to_txt_file up to the ingestion (lines 174-226, 237-249).  With a blob id in
\* the Document Map the old content is the blob's; without one it is the local
\* file's.  The new content is stored, recorded and written to the local file; a
\* failing retrieve, decode, read or store leads to the local append.  A request for
\* a file that is nowhere is answered 404 and changes nothing.
AppendToTxtFile(filename, content) ==
    /\ handler.pc = "idle"
    /\ hist.runs < MaxRuns
    /\ \E luckyR, luckyS \in BOOLEAN :
        LET blob_id == get_blob_id(document_map, filename)
            file_path == Path(DATA_DIR, filename)
            read == IF blob_id # NotFound
                    THEN retrieve_ok(blobs, blob_id, luckyR)
                         /\ decode_ok(retrieve_document(blobs, blob_id))
                    ELSE Readable(dataFiles, file_path)
            existing_content == IF blob_id # NotFound
                                THEN retrieve_document(blobs, blob_id).bytes
                                ELSE dataFiles[file_path].bytes
            new_content == appended(existing_content, content)
        IN  /\ blob_id # NotFound \/ exists(dataFiles, file_path)
            /\ IF read /\ store_ok(blobs, luckyS)
               THEN /\ blobs' = store_document(blobs, DocBlob(new_content))
                    /\ document_map' = add_document(document_map, filename, Len(blobs) + 1,
                            IF blob_id # NotFound
                            THEN [source |-> "web_append", updated |-> TRUE]
                            ELSE [source |-> "web_append"])
                    /\ mapFile' = save_map(document_map')
                    /\ lastAdd' = [lastAdd EXCEPT ![filename] = Len(blobs) + 1]
                    /\ dataFiles' = [dataFiles EXCEPT ![file_path] = File(new_content)]
                    /\ handler' = [handler EXCEPT !.pc = "ingest", !.use_walrus = TRUE,
                            !.req = Request("append", filename, content, Len(blobs) + 1)]
               ELSE /\ exists(dataFiles, file_path)
                    /\ dataFiles' = [dataFiles EXCEPT ![file_path] =
                            File(append_bytes(dataFiles[file_path].bytes, content))]
                    /\ handler' = [handler EXCEPT !.pc = "ingest", !.use_walrus = FALSE,
                            !.req = Request("append", filename, content, NotFound)]
                    /\ UNCHANGED <<blobs, document_map, mapFile, lastAdd>>
    /\ UNCHANGED <<walrusDown, http, idsFile, storeFiles, ret, mapHist, ingester, retrieverVars,
                   loader, query, hist>>

\* lines 136 / 154: os.system('python ingest.py [--no-walrus]') starts the process
TriggerIngestion ==
    /\ handler.pc = "ingest" /\ ~IngesterRunning
    /\ ingester' = DocumentIngester(handler.use_walrus)
    /\ hist' = [hist EXCEPT !.runs = @ + 1]
    /\ handler' = [handler EXCEPT !.pc = "ingesting"]
    /\ UNCHANGED <<storageVars, mapVars, retrieverVars, loader, query>>

\* lines 137 / 155: the process has ended; rag_bot.retriever.load_artifacts()
Reload ==
    /\ handler.pc = "ingesting" /\ ingester.pc \in {"done", "raised"}
    /\ handler' = [handler EXCEPT !.pc = "reloading",
                                   !.wrote = ingester.pc = "done" /\ ingester.index # None]
    /\ loader' = StartedLoader
    /\ ingester' = NoIngester
    /\ UNCHANGED <<storageVars, mapVars, retrieverVars, query, hist>>

\* load_artifacts has returned: __init__ is over, or the handler sends its response
LoadReturn ==
    /\ loader.pc = "done"
    /\ handler.pc \in {"starting", "reloading"}
    /\ loader' = [loader EXCEPT !.pc = "idle"]
    /\ handler' = [handler EXCEPT !.pc = "idle"]
    /\ UNCHANGED <<storageVars, mapVars, ingester, retrieverVars, query, hist>>

\* the remote store becomes unreachable
Outage ==
    /\ ~walrusDown
    /\ walrusDown' = TRUE
    /\ UNCHANGED <<http, blobs, dataFiles, mapFile, idsFile, storeFiles, mapVars, ingester,
                   retrieverVars, threadVars>>

-----------------------------------------------------------------------------
(* The whole system: ingestion from the command line, then the web process with *)
(* one upload handler thread and one chat thread.                               *)

NoFiles == [pa \in Paths |-> NoFile]
NoStoreFiles == [n \in ArtifactNames |-> NoFile]
\* vector_store/ is empty, or holds the index file an interrupted ingestion left behind
InitialStoreFiles == {NoStoreFiles, [NoStoreFiles EXCEPT !["index"] = Corrupt]}
OfflineHandler == [pc |-> "offline", use_walrus |-> FALSE,
                   req |-> None,       \* history: the request it is serving or served last
                   wrote |-> FALSE]    \* history: its ingestion run wrote artifacts

\* the documents the operator has put under data_dir before anything runs
InitialFiles ==
    {[NoFiles EXCEPT ![Path(data_dir, "alpha.txt")] = a] : a \in {File(T_alpha), NoFile}}

Init ==
    /\ walrusDown = FALSE
    /\ http = NoExchange
    /\ blobs = <<>>
    /\ dataFiles \in InitialFiles
    /\ mapFile = NoMapFile
    /\ idsFile = EmptyDict
    /\ storeFiles \in InitialStoreFiles
    /\ document_map = EmptyDict
    /\ ret = None
    /\ lastAdd = [f \in FileNames |-> NotFound]
    /\ mapHist = NoMapHist
    /\ ingester = NoIngester
    /\ index = None /\ vectorizer = None /\ document_metadata = None
    /\ vector_store_blob_ids = EmptyDict
    /\ rdoc_map = EmptyDict
    /\ loader = IdleLoader
    /\ query = IdleQuery
    /\ handler = OfflineHandler
    /\ hist = [runs |-> 0, prev |-> None, sets |-> {}]

QueryIdle == query.pc = "idle"

\* the web process serves one request at a time
Next ==
    \/ \E use_walrus \in BOOLEAN : CliIngest(use_walrus)
    \/ LoadDocuments
    \/ CreateEmbeddings
    \/ StartApp
    \/ \E filename \in FileNames, file_content \in UploadTexts :
            QueryIdle /\ Upload(filename, file_content)
    \/ TriggerIngestion
    \/ Reload
    \/ LoadStart
    \/ \E name \in ArtifactNames : LoadRemote(name)
    \/ \E name \in ArtifactNames : LoadLocal(name)
    \/ \E name \in ArtifactNames : LoadExcept(name)
    \/ LoadReturn
    \/ \E text \in Queries, k \in 1..MaxK : handler.pc = "idle" /\ QueryStart(text, k)
    \/ QueryGuard
    \/ QueryEmbed
    \/ QuerySearch
    \/ QueryHit
    \/ QueryReturn
    \/ QueryExit

Spec == Init /\ [][Next]_vars

-----------------------------------------------------------------------------
(* The ingester alone: one ingestion process after the other over storage that *)
(* earlier uploads and the operator have left behind.                          *)

T_appended == T_alpha \o <<NewLine>> \o T_more

\* data_dir and its subdirectory as the operator filled them
IngestFiles ==
    {[NoFiles EXCEPT ![Path(data_dir, "alpha.txt")] = a,
                     ![Path(data_dir, "beta.txt")] = b,
                     ![Path(sub_dir, "alpha.txt")] = c] :
        a \in {NoFile, File(T_alpha), File(BadBytes)},
        b \in {NoFile, File(T_beta)},
        c \in {NoFile, File(T_more)}}

\* the Document Map file and the blobs that earlier uploads left: [map, blobs]
Uploaded ==
    LET rec(b) == [blob_id |-> b, metadata |-> [source |-> "web_upload"]]
    IN  {[map |-> NoMapFile, blobs |-> <<>>],
         [map |-> save_map([f \in {"alpha.txt"} |-> rec(1)]),
          blobs |-> <<DocBlob(T_appended)>>],
         [map |-> save_map([f \in {"alpha.txt"} |-> rec(1)]),
          blobs |-> <<DocBlob(BadBytes)>>],
         [map |-> save_map([f \in {"beta.txt"} |-> rec(1)]),
          blobs |-> <<DocBlob(T_beta)>>]}

InitIngest ==
    /\ walrusDown \in BOOLEAN
    /\ http = NoExchange
    /\ dataFiles \in IngestFiles
    /\ \E u \in Uploaded : mapFile = u.map /\ blobs = u.blobs
    /\ idsFile = EmptyDict
    /\ storeFiles = NoStoreFiles
    /\ document_map = EmptyDict
    /\ ret = None
    /\ lastAdd = [f \in FileNames |-> NotFound]
    /\ mapHist = NoMapHist
    /\ ingester = NoIngester
    /\ index = None /\ vectorizer = None /\ document_metadata = None
    /\ vector_store_blob_ids = EmptyDict
    /\ rdoc_map = EmptyDict
    /\ loader = IdleLoader
    /\ query = IdleQuery
    /\ handler = OfflineHandler
    \* the runs before this one found no documents and wrote nothing
    /\ hist = [runs |-> MaxRuns - 1, prev |-> None, sets |-> {}]

NextIngest ==
    \/ \E use_walrus \in BOOLEAN : CliIngest(use_walrus)
    \/ LoadDocuments
    \/ CreateEmbeddings

SpecIngest == InitIngest /\ [][NextIngest]_vars

-----------------------------------------------------------------------------
(* The Document Map alone: one DocumentMap instance and its backing file. *)

\* the dict and the backing file as the call found them
Called == [mapHist EXCEPT !.dm = document_map, !.file = mapFile]

\* the process that holds the instance is running
Alive == IF ret = None THEN TRUE ELSE ret.op # "stopped"

\* save_map cut short. open(map_file, "w") empties the file and json.dump writes the
\* text piece by piece: a process that stops before the open leaves the file as it was,
\* one that stops after the last piece leaves the new text, and one that stops in
\* between leaves no text or the beginning of the text, which is not JSON.
save_map_stopped(file, dm) == {file, CorruptMapFile, save_map(dm)}

\* add_document where the process stops inside save_map; ret.after is the dict the
\* call was writing
MapAddStopped(filename, blob_id, metadata) ==
    /\ Alive
    /\ document_map' = add_document(document_map, filename, blob_id, metadata)
    /\ mapFile' \in save_map_stopped(mapFile, document_map')
    /\ lastAdd' = [lastAdd EXCEPT ![filename] = blob_id]
    /\ mapHist' = [Called EXCEPT !.added[filename] =
                        [blob_id |-> blob_id,
                         metadata |-> IF metadata = None THEN EmptyDict ELSE metadata]]
    /\ ret' = [op |-> "stopped", filename |-> filename, val |-> None,
               after |-> document_map']
    /\ UNCHANGED <<walrusDown, http, blobs, dataFiles, idsFile, storeFiles, ingester,
                   retrieverVars, threadVars>>

MapAdd(filename, blob_id, metadata) ==
    /\ Alive
    /\ document_map' = add_document(document_map, filename, blob_id, metadata)
    /\ mapFile' = save_map(document_map')
    /\ lastAdd' = [lastAdd EXCEPT ![filename] = blob_id]
    /\ mapHist' = [Called EXCEPT !.added[filename] =
                        [blob_id |-> blob_id,
                         metadata |-> IF metadata = None THEN EmptyDict ELSE metadata]]
    /\ ret' = [op |-> "add_document", filename |-> filename, val |-> None]
    /\ UNCHANGED <<walrusDown, http, blobs, dataFiles, idsFile, storeFiles, ingester,
                   retrieverVars, threadVars>>

MapGet(filename) ==
    /\ Alive
    /\ ret' = [op |-> "get_blob_id", filename |-> filename,
               val |-> get_blob_id(document_map, filename)]
    /\ mapHist' = Called
    /\ UNCHANGED <<storageVars, document_map, lastAdd, ingester, retrieverVars, threadVars>>

\* ret.again: the call before this one was a remove_document of the same filename
MapRemove(filename) ==
    /\ Alive
    /\ document_map' = remove_document(document_map, filename).dm
    /\ mapFile' = IF remove_document(document_map, filename).val
                  THEN save_map(document_map') ELSE mapFile
    /\ lastAdd' = [lastAdd EXCEPT ![filename] = NotFound]
    /\ mapHist' = [Called EXCEPT !.added[filename] = None]
    /\ ret' = [op |-> "remove_document", filename |-> filename,
               val |-> remove_document(document_map, filename).val,
               again |-> ret # None /\ ret.op = "remove_document"
                                   /\ ret.filename = filename]
    /\ UNCHANGED <<walrusDown, http, blobs, dataFiles, idsFile, storeFiles, ingester,
                   retrieverVars, threadVars>>

MapList ==
    /\ Alive
    /\ ret' = [op |-> "list_documents", filename |-> "", val |-> list_documents(document_map)]
    /\ mapHist' = Called
    /\ UNCHANGED <<storageVars, document_map, lastAdd, ingester, retrieverVars, threadVars>>

MapExists(filename) ==
    /\ Alive
    /\ ret' = [op |-> "document_exists", filename |-> filename,
               val |-> document_exists(document_map, filename)]
    /\ mapHist' = Called
    /\ UNCHANGED <<storageVars, document_map, lastAdd, ingester, retrieverVars, threadVars>>

\* DocumentMap(): a new instance reads the backing file (the process restarted)
MapOpen ==
    /\ document_map' = load_map(mapFile)
    /\ ret' = None
    /\ lastAdd' = [f \in FileNames |-> get_blob_id(document_map', f)]
    /\ mapHist' = [Called EXCEPT !.added = [f \in FileNames |->
                        IF f \in DOMAIN document_map' THEN document_map'[f] ELSE None]]
    /\ UNCHANGED <<storageVars, ingester, retrieverVars, threadVars>>

MapBlobIds == 1..MaxBlobId

\* the backing file before the instance is constructed
InitialMapFiles ==
    {NoMapFile, CorruptMapFile} \cup
    {save_map([f \in {name} |-> [blob_id |-> 1, metadata |-> EmptyDict]]) :
        name \in FileNames}

InitMap ==
    /\ walrusDown = FALSE
    /\ http = NoExchange
    /\ blobs = <<>>
    /\ dataFiles = NoFiles
    /\ mapFile \in InitialMapFiles
    /\ idsFile = EmptyDict
    /\ storeFiles = NoStoreFiles
    /\ document_map = load_map(mapFile)
    /\ ret = None
    /\ lastAdd = [f \in FileNames |-> get_blob_id(load_map(mapFile), f)]
    /\ mapHist = [NoMapHist EXCEPT
                    !.added = [f \in FileNames |->
                                  IF f \in DOMAIN load_map(mapFile)
                                  THEN load_map(mapFile)[f] ELSE None],
                    !.dm = load_map(mapFile), !.file = mapFile]
    /\ ingester = NoIngester
    /\ index = None /\ vectorizer = None /\ document_metadata = None
    /\ vector_store_blob_ids = EmptyDict
    /\ rdoc_map = EmptyDict
    /\ loader = IdleLoader
    /\ query = IdleQuery
    /\ handler = OfflineHandler
    /\ hist = [runs |-> 0, prev |-> None, sets |-> {}]

NextMap ==
    \/ \E filename \in FileNames, blob_id \in MapBlobIds, metadata \in Metadatas \cup {None} :
            MapAdd(filename, blob_id, metadata)
    \/ \E filename \in FileNames, blob_id \in MapBlobIds, metadata \in Metadatas \cup {None} :
            MapAddStopped(filename, blob_id, metadata)
    \/ \E filename \in FileNames : MapGet(filename)
    \/ \E filename \in FileNames : MapRemove(filename)
    \/ MapList
    \/ \E filename \in FileNames : MapExists(filename)
    \/ MapOpen

SpecMap == InitMap /\ [][NextMap]_vars

-----------------------------------------------------------------------------
(* The retriever alone: its artifacts are loaded, the chat thread calls        *)
(* retrieve_documents again and again, and storage is whatever uploads and the *)
(* operator have made of it since the ingestion.                               *)

Text(filename) == IF filename = "alpha.txt" THEN T_alpha ELSE T_beta

\* the corpora of the ingestion run behind the loaded artifacts
QueryCorpora == {<<"alpha.txt">>, <<"alpha.txt", "beta.txt">>, <<"beta.txt", "alpha.txt">>}

\* the artifacts of an ingestion run over the local files `names`
Artifacts(names) ==
    LET e == Embeddings([i \in 1..Len(names) |-> Text(names[i])])
    IN  [index |-> Art(e.index),
         vectorizer |-> Art(e.vectorizer),
         metadata |-> Art([i \in 1..Len(names) |->
                                  [file_path |-> Path(data_dir, names[i]),
                                   file_name |-> names[i], source |-> "local"]])]

\* blobs and Document Map entries of the uploads so far: alpha.txt not uploaded, or
\* uploaded as text or as bytes that are no text; beta.txt uploaded or not
QueryUploads ==
    LET up(dm, bs, filename, bytes) ==
            [dm |-> add_document(dm, filename, Len(bs) + 1, [source |-> "web_upload"]),
             blobs |-> store_document(bs, DocBlob(bytes))]
        none == [dm |-> EmptyDict, blobs |-> <<>>]
        A == {none, up(EmptyDict, <<>>, "alpha.txt", T_appended),
              up(EmptyDict, <<>>, "alpha.txt", BadBytes)}
    IN  A \cup {up(a.dm, a.blobs, "beta.txt", T_beta) : a \in A}

\* the document files as they are now
QueryFiles ==
    {[NoFiles EXCEPT ![Path(data_dir, "alpha.txt")] = a,
                     ![Path(data_dir, "beta.txt")] = b] :
        a \in {NoFile, File(T_alpha), File(BadBytes)},
        b \in {NoFile, File(T_beta)}}

InitQuery ==
    /\ walrusDown = FALSE
    /\ http = NoExchange
    /\ dataFiles \in QueryFiles
    /\ \E u \in QueryUploads :
        /\ blobs = u.blobs
        /\ mapFile = IF u.dm = EmptyDict THEN NoMapFile ELSE save_map(u.dm)
        /\ document_map = u.dm
        /\ rdoc_map = u.dm
        /\ lastAdd = [f \in FileNames |-> get_blob_id(u.dm, f)]
        /\ mapHist = NoMapHist
    /\ idsFile = EmptyDict
    /\ vector_store_blob_ids = EmptyDict
    /\ \E names \in QueryCorpora :
        /\ storeFiles = Artifacts(names)
        /\ index = load_local("index", storeFiles["index"])
        /\ vectorizer = load_local("vectorizer", storeFiles["vectorizer"])
        /\ document_metadata = load_local("metadata", storeFiles["metadata"])
    /\ ret = None
    /\ ingester = NoIngester
    /\ loader = IdleLoader
    /\ query = IdleQuery
    /\ handler = [OfflineHandler EXCEPT !.pc = "idle"]
    /\ hist = [runs |-> 1, prev |-> None, sets |-> {storeFiles}]

NextQuery ==
    \/ \E text \in Queries, k \in 1..MaxK : QueryStart(text, k)
    \/ QueryGuard
    \/ QueryEmbed
    \/ QuerySearch
    \/ QueryHit
    \/ QueryReturn
    \/ \E text \in Queries, k \in 1..MaxK : QueryRepeat(text, k)
    \/ QueryExit
    \/ QueryIdle /\ Outage

SpecQuery == InitQuery /\ [][NextQuery]_vars

-----------------------------------------------------------------------------
(* The construction of the retriever alone: load_artifacts over the side-table,  *)
(* the blobs and the local artifact files that earlier runs, an interrupted      *)
(* write or the operator left behind.                                           *)

\* the artifacts a run with remote storage stored as blobs 1, 2 and 3
RemoteArtifacts == Artifacts(<<"alpha.txt", "beta.txt">>)

\* vector_store_blob_ids.json: missing or {}, the table of that run, or a table that
\* lacks some of the names
SideTables ==
    LET full == [n \in ArtifactNames |->
                    CHOOSE i \in 1..Len(SaveOrder) : SaveOrder[i] = n]
    IN  {[n \in S |-> full[n]] : S \in SUBSET ArtifactNames}

\* vector_store/: empty, the three files of a later run without remote storage, or
\* these with a vectorizer.pkl that does not unpickle
LoadStoreFiles ==
    {NoStoreFiles, Artifacts(<<"alpha.txt">>),
     [Artifacts(<<"alpha.txt">>) EXCEPT !["vectorizer"] = Corrupt]}

InitLoad ==
    /\ walrusDown \in BOOLEAN
    /\ http = NoExchange
    /\ blobs = [i \in 1..Len(SaveOrder) |->
                    ArtBlob(SaveOrder[i], RemoteArtifacts[SaveOrder[i]])]
    /\ dataFiles = NoFiles
    /\ mapFile = NoMapFile
    /\ idsFile \in SideTables
    /\ storeFiles \in LoadStoreFiles
    /\ document_map = EmptyDict
    /\ ret = None
    /\ lastAdd = [f \in FileNames |-> NotFound]
    /\ mapHist = NoMapHist
    /\ ingester = NoIngester
    /\ index = None /\ vectorizer = None /\ document_metadata = None
    /\ vector_store_blob_ids = EmptyDict
    /\ rdoc_map = EmptyDict
    /\ loader = IdleLoader
    /\ query = IdleQuery
    /\ handler = OfflineHandler
    /\ hist = [runs |-> 1, prev |-> None, sets |-> {RemoteArtifacts, storeFiles}]

NextLoad ==
    \/ StartApp
    \/ LoadStart
    \/ \E name \in ArtifactNames : LoadRemote(name)
    \/ \E name \in ArtifactNames : LoadLocal(name)
    \/ \E name \in ArtifactNames : LoadExcept(name)
    \/ LoadReturn

SpecLoad == InitLoad /\ [][NextLoad]_vars

-----------------------------------------------------------------------------
(* The upload and append handlers alone: the web process is up and idle, one     *)
(* request arrives and is served to its end, ingestion and reload included.     *)

\* what earlier requests and runs left of alpha.txt: [Document Map, blobs, the file
\* under DATA_DIR]
AppStates ==
    LET rec == [f \in {"alpha.txt"} |-> [blob_id |-> 1, metadata |-> [source |-> "web_upload"]]]
    IN  {\* nothing yet
         [dm |-> EmptyDict, blobs |-> <<>>, file |-> NoFile],
         \* uploaded through the remote path
         [dm |-> rec, blobs |-> <<DocBlob(T_alpha)>>, file |-> File(T_alpha)],
         \* uploaded while the store was unreachable
         [dm |-> EmptyDict, blobs |-> <<>>, file |-> File(T_alpha)],
         \* uploaded through the remote path, then appended to while it was unreachable
         [dm |-> rec, blobs |-> <<DocBlob(T_alpha)>>,
          file |-> File(append_bytes(T_alpha, T_beta))],
         \* bytes that are no text, uploaded through the remote path
         [dm |-> rec, blobs |-> <<DocBlob(BadBytes)>>, file |-> File(BadBytes)],
         \* stored by an ingestion run from data_dir: no file under DATA_DIR
         [dm |-> rec, blobs |-> <<DocBlob(T_alpha)>>, file |-> NoFile]}

InitApp ==
    /\ walrusDown = FALSE
    /\ http = NoExchange
    /\ \E a \in AppStates, d \in {NoFile, File(T_alpha)} :
        /\ blobs = a.blobs
        /\ mapFile = IF a.dm = EmptyDict THEN NoMapFile ELSE save_map(a.dm)
        /\ document_map = a.dm
        /\ rdoc_map = a.dm
        /\ lastAdd = [f \in FileNames |-> get_blob_id(a.dm, f)]
        /\ dataFiles = [NoFiles EXCEPT ![Path(DATA_DIR, "alpha.txt")] = a.file,
                                       ![Path(data_dir, "alpha.txt")] = d]
    /\ idsFile = EmptyDict
    /\ storeFiles \in InitialStoreFiles
    /\ ret = None
    /\ mapHist = NoMapHist
    /\ ingester = NoIngester
    /\ index = None /\ vectorizer = None /\ document_metadata = None
    /\ vector_store_blob_ids = EmptyDict
    /\ loader = IdleLoader
    /\ query = IdleQuery
    /\ handler = [OfflineHandler EXCEPT !.pc = "idle"]
    /\ hist = [runs |-> MaxRuns - 1, prev |-> None, sets |-> {}]

\* the retriever read an empty side-table when it was constructed, so its
\* load_artifacts never takes the remote branch of line 51
NextApp ==
    \/ \E filename \in FileNames, file_content \in UploadTexts :
            Upload(filename, file_content)
    \/ \E filename \in FileNames, content \in AppendTexts : AppendToTxtFile(filename, content)
    \/ TriggerIngestion
    \/ LoadDocuments
    \/ CreateEmbeddings
    \/ Reload
    \/ LoadStart
    \/ \E name \in ArtifactNames : LoadLocal(name)
    \/ \E name \in ArtifactNames : LoadExcept(name)
    \/ LoadReturn

SpecApp == InitApp /\ [][NextApp]_vars

\* The web process after an append request: the request is served to its end, then the
\* chat thread calls retrieve_documents, the operator may run python ingest.py
\* [--no-walrus] once, and the remote store may become unreachable.
LaterIngest(use_walrus) ==
    /\ handler.pc = "idle" /\ handler.req # None
    /\ ingester.pc = "none"
    /\ ingester' = DocumentIngester(use_walrus)
    /\ UNCHANGED <<storageVars, mapVars, retrieverVars, threadVars>>

Answered == handler.pc = "idle" /\ handler.req # None

NextAppended ==
    \/ \E filename \in FileNames, content \in AppendTexts :
            QueryIdle /\ AppendToTxtFile(filename, content)
    \/ TriggerIngestion
    \/ LoadDocuments
    \/ CreateEmbeddings
    \/ Reload
    \/ LoadStart
    \/ \E name \in ArtifactNames : LoadLocal(name)
    \/ \E name \in ArtifactNames : LoadExcept(name)
    \/ LoadReturn
    \/ \E use_walrus \in BOOLEAN : QueryIdle /\ LaterIngest(use_walrus)
    \/ \E text \in Queries, k \in 1..MaxK :
            Answered /\ ~IngesterRunning /\ QueryStart(text, k)
    \/ QueryGuard
    \/ QueryEmbed
    \/ QuerySearch
    \/ QueryHit
    \/ QueryReturn
    \/ QueryExit
    \/ Answered /\ QueryIdle /\ ~IngesterRunning /\ Outage

SpecAppended == InitApp /\ [][NextAppended]_vars

-----------------------------------------------------------------------------
(* The blob store client alone: each method is called and the server answers    *)
(* with any status and any body.                                                *)

Responses(bodies) ==
    {NoResponse} \cup {[status_code |-> c, body |-> b] : c \in StatusCodes, b \in bodies}

StoreBodies ==
    {[blob_id |-> i] : i \in MapBlobIds} \cup {[error |-> "denied"], NotJson}
RetrieveBodies ==
    {[data |-> b64encode(T_alpha)], [data |-> b64encode(BadBytes)], [data |-> NotB64],
     [error |-> "denied"], NotJson}
ListBodies ==
    {[blobs |-> <<>>], [blobs |-> <<[id |-> 1, size |-> 3]>>], [error |-> "denied"], NotJson}

ClientStore(file_content, response) ==
    /\ http' = [op |-> "store_document",
                sent |-> [data |-> b64encode(file_content)],
                response |-> response,
                out |-> client_store_document(response)]
    /\ UNCHANGED <<walrusDown, blobs, dataFiles, mapFile, idsFile, storeFiles, mapVars,
                   ingester, retrieverVars, threadVars>>

ClientRetrieve(blob_id, response) ==
    /\ http' = [op |-> "retrieve_document",
                sent |-> [blob_id |-> blob_id],
                response |-> response,
                out |-> client_retrieve_document(response)]
    /\ UNCHANGED <<walrusDown, blobs, dataFiles, mapFile, idsFile, storeFiles, mapVars,
                   ingester, retrieverVars, threadVars>>

ClientList(response) ==
    /\ http' = [op |-> "list_documents",
                sent |-> EmptyDict,
                response |-> response,
                out |-> client_list_documents(response)]
    /\ UNCHANGED <<walrusDown, blobs, dataFiles, mapFile, idsFile, storeFiles, mapVars,
                   ingester, retrieverVars, threadVars>>

InitClient ==
    /\ walrusDown = FALSE
    /\ http = NoExchange
    /\ blobs = <<>>
    /\ dataFiles = NoFiles
    /\ mapFile = NoMapFile
    /\ idsFile = EmptyDict
    /\ storeFiles = NoStoreFiles
    /\ document_map = EmptyDict
    /\ ret = None
    /\ lastAdd = [f \in FileNames |-> NotFound]
    /\ mapHist = NoMapHist
    /\ ingester = NoIngester
    /\ index = None /\ vectorizer = None /\ document_metadata = None
    /\ vector_store_blob_ids = EmptyDict
    /\ rdoc_map = EmptyDict
    /\ loader = IdleLoader
    /\ query = IdleQuery
    /\ handler = OfflineHandler
    /\ hist = [runs |-> 0, prev |-> None, sets |-> {}]

NextClient ==
    \/ \E file_content \in {T_alpha, BadBytes}, response \in Responses(StoreBodies) :
            ClientStore(file_content, response)
    \/ \E blob_id \in MapBlobIds, response \in Responses(RetrieveBodies) :
            ClientRetrieve(blob_id, response)
    \/ \E response \in Responses(ListBodies) : ClientList(response)

SpecClient == InitClient /\ [][NextClient]_vars

\* get_blob_info on its own: the server answers its list request and, when the
\* method sends one, its retrieve request
InfoListBodies ==
    ListBodies \cup
    {[blobs |-> <<[id |-> 2, metadata |-> [filename |-> "alpha.txt"]],
                 [id |-> 1, size |-> 3]>>],
     [blobs |-> <<[size |-> 3]>>]}

ClientInfo(blob_id, list_response, retrieve_response) ==
    /\ http' = [op |-> "get_blob_info",
                sent |-> [blob_id |-> blob_id],
                listing |-> list_response,
                retrieval |-> retrieve_response,
                out |-> client_get_blob_info(blob_id, list_response, retrieve_response)]
    /\ UNCHANGED <<walrusDown, blobs, dataFiles, mapFile, idsFile, storeFiles, mapVars,
                   ingester, retrieverVars, threadVars>>

NextInfo ==
    \E blob_id \in MapBlobIds, list_response \in Responses(InfoListBodies),
       retrieve_response \in Responses(RetrieveBodies) :
            ClientInfo(blob_id, list_response, retrieve_response)

SpecInfo == InitClient /\ [][NextInfo]_vars

-----------------------------------------------------------------------------
(* The web process with its two threads running together: the chat thread calls *)
(* retrieve_documents while the upload handler is inside load_artifacts.        *)

NextSwap ==
    \/ CliIngest(FALSE)
    \/ LoadDocuments
    \/ CreateEmbeddings
    \/ StartApp
    \/ \E filename \in FileNames, file_content \in UploadTexts :
            QueryIdle /\ Upload(filename, file_content)
    \/ TriggerIngestion
    \/ Reload
    \/ LoadStart
    \/ \E name \in ArtifactNames : LoadLocal(name)
    \/ \E name \in ArtifactNames : LoadExcept(name)
    \/ LoadReturn
    \/ \E text \in Queries, k \in 1..MaxK : handler.pc = "reloading" /\ QueryStart(text, k)
    \/ QueryGuard
    \/ QueryEmbed
    \/ QuerySearch
    \/ QueryHit
    \/ QueryReturn
    \/ QueryExit

SpecSwap == Init /\ [][NextSwap]_vars

-----------------------------------------------------------------------------
(* Properties *)

\* the call of retrieve_documents has gone through its guard
Serving == query.pc \notin {"idle", "guard"}

\* the results the last hit added to relevant_docs
Added == SubSeq(query.relevant_docs, query.obs.before + 1, Len(query.relevant_docs))

\* the remote store answered the last hit's request with a blob that decodes as text
RemoteGood == /\ query.obs.blob_id # NotFound
              /\ query.obs.remote # None
              /\ decode_ok(query.obs.remote)

\* C1 (SpecSwap): a retrieve_documents call that overlaps a load_artifacts call does
\* not raise, and the index, the vectorizer and the metadata it computes with are
\* the artifacts one and the same ingestion run wrote.
C1_SwapAtomic ==
    query.reloaded =>
        /\ query.pc # "raised"
        /\ \E set \in hist.sets \cup {NoStoreFiles} :
                \A n \in ArtifactNames : query.used[n] \subseteq {set[n]}

\* a call that embedded the query with the vectorizer of the old set and searched
\* the index of the new one, which has another dimension: faiss raises
C1_Witness ==
    /\ query.reloaded
    /\ query.pc = "raised" /\ query.raised = "AssertionError"
    /\ loader.pc = "local" /\ loader.at = "vectorizer"
    /\ query.used["index"] = {storeFiles["index"]}
    /\ query.used["vectorizer"] # {storeFiles["vectorizer"]}

\* C2 (Spec): when load_artifacts has returned, either all three fields were assigned
\* by the remote attempt, or none of them holds a remotely fetched value: after a
\* failure in the remote attempt every field is from the local file or is None.
C2_NoMixedTiers ==
    loader.pc = "done" =>
        LET tiers == {loader.src[n] : n \in ArtifactNames}
        IN  /\ tiers = {"remote"} \/ tiers \subseteq {"local", "absent"}
            /\ loader.remote_failed => tiers \subseteq {"local", "absent"}

\* a load that gave up the remote attempt after it had assigned a field from it
C2_Witness ==
    /\ loader.pc = "done"
    /\ loader.remote_failed
    /\ loader.fetched # {}
    /\ \A n \in ArtifactNames : loader.src[n] = "local"

\* C3 (Spec): when the upload handler's reload has returned after an ingestion run
\* that wrote its artifacts, the retriever holds the artifacts of that run.
C3_ReloadLoadsThisRun ==
    (handler.pc = "reloading" /\ loader.pc = "done" /\ handler.wrote)
    => \A n \in ArtifactNames : field(n) = storeFiles[n]

\* the reload after an upload's ingestion run fetched the three artifacts by the blob
\* ids read at construction: the retriever holds the set of the run before
C3_Witness ==
    /\ handler.pc = "reloading" /\ loader.pc = "done" /\ handler.wrote
    /\ loader.fetched = ArtifactNames
    /\ vector_store_blob_ids # idsFile
    /\ vectorizer # storeFiles["vectorizer"]
    /\ document_metadata # storeFiles["metadata"]

\* C4 (SpecIngest): after load_documents, document_metadata has one entry per loaded
\* text and entry i names the file text i was read from; after create_embeddings the
\* index has one vector per entry and vector i is the embedding of text i.
C4_Alignment ==
    /\ ingester.pc \in {"loaded", "done", "raised"} =>
        /\ Len(ingester.document_metadata) = Len(ingester.documents)
        /\ Len(ingester.origins) = Len(ingester.documents)
        /\ \A i \in 1..Len(ingester.documents) :
                ingester.document_metadata[i].file_name = ingester.origins[i]
    /\ ingester.pc = "done" /\ ingester.index # None =>
        /\ ntotal(ingester.index) = Len(ingester.document_metadata)
        /\ \A i \in 1..Len(ingester.documents) :
                ingester.index.rows[i] = transform(ingester.fitted, ingester.documents[i])

\* a run that loaded one text from the remote store and one from the local
\* directory, while another remote load failed, and built the index
C4_Witness ==
    /\ ingester.pc = "done" /\ ingester.index # None
    /\ Len(ingester.documents) >= 2
    /\ \E i, j \in 1..Len(ingester.document_metadata) :
        /\ ingester.document_metadata[i].source = "walrus"
        /\ ingester.document_metadata[j].source = "local"
    /\ Cardinality(DOMAIN ingester.doc_map) > Cardinality(
            {i \in 1..Len(ingester.document_metadata) :
                ingester.document_metadata[i].source = "walrus"})

\* C5 as stated (SpecQuery): with the remote store down, a hit whose local file
\* exists yields a result with that file's content and source 'local'.
C5_LocalFileExists ==
    (/\ query.obs # None
     /\ query.obs.down
     /\ query.obs.local # NoFile)
    => Added = <<Result(query.obs.local.bytes, query.obs.doc_info, "local")>>

\* C5 (SpecQuery): with the remote store down, a hit whose local file exists and
\* reads as UTF-8 text yields a result with that file's content and source 'local'.
C5_LocalFileReadable ==
    (/\ query.obs # None
     /\ query.obs.down
     /\ query.obs.local # NoFile
     /\ Decodable(query.obs.local.bytes))
    => Added = <<Result(query.obs.local.bytes, query.obs.doc_info, "local")>>

\* a hit with a blob id in the Document Map, served from the local file because the
\* remote store is down
C5_Witness ==
    /\ query.pc = "done"
    /\ query.obs # None
    /\ query.obs.down
    /\ query.obs.blob_id # NotFound
    /\ query.obs.local # NoFile
    /\ Decodable(query.obs.local.bytes)
    /\ Added # <<>>

\* C6 (SpecQuery): retrieve_documents does not raise, whatever the Document Map, the
\* remote store and the local file do for a hit; it returns at most k results.
C6_NeverRaises ==
    /\ query.pc # "raised"
    /\ query.raised = "none"
    /\ query.pc = "done" => Len(query.relevant_docs) <= query.k

\* a call that returned fewer than k results: the remote request for a hit failed
\* and its local file is missing or unreadable
C6_Witness ==
    /\ query.pc = "done"
    /\ query.obs # None
    /\ query.obs.blob_id # NotFound
    /\ query.obs.remote = None
    /\ (query.obs.local = NoFile \/ ~Decodable(query.obs.local.bytes))
    /\ Added = <<>>
    /\ Len(query.relevant_docs) < query.k

\* results follow the hits: result j stems from hit from[j], and these increase
OrderKept ==
    /\ Len(query.from) = Len(query.relevant_docs)
    /\ \A j \in 1..Len(query.from) :
        /\ query.from[j] < Len(query.indices)
        /\ query.relevant_docs[j].file_name =
                PyAt(document_metadata.obj, At(query.indices, query.from[j])).file_name
        /\ \A j2 \in 1..Len(query.from) : j < j2 => query.from[j] < query.from[j2]

\* C7 as stated (SpecQuery): remote content when the blob id is known and fetch and
\* decode succeed, without reading the local file; else the local content when the
\* local file exists; else nothing; results in the order of the hits.
C7_RemoteFirstExists ==
    Serving /\ query.obs # None =>
        /\ Added = IF RemoteGood
                   THEN <<Result(query.obs.remote.bytes, query.obs.doc_info, "walrus")>>
                   ELSE IF query.obs.local # NoFile
                   THEN <<Result(query.obs.local.bytes, query.obs.doc_info, "local")>>
                   ELSE <<>>
        /\ RemoteGood => ~query.obs.read_local
        /\ OrderKept

\* C7 (SpecQuery): remote content when the blob id is known and fetch and decode
\* succeed, without reading the local file; else the local content when the local
\* file exists and reads as UTF-8 text; else nothing; results in the order of the hits.
C7_RemoteFirstReadable ==
    Serving /\ query.obs # None =>
        /\ Added = IF RemoteGood
                   THEN <<Result(query.obs.remote.bytes, query.obs.doc_info, "walrus")>>
                   ELSE IF query.obs.local # NoFile /\ Decodable(query.obs.local.bytes)
                   THEN <<Result(query.obs.local.bytes, query.obs.doc_info, "local")>>
                   ELSE <<>>
        /\ RemoteGood => ~query.obs.read_local
        /\ OrderKept

\* a call with two results, the last one taken from the remote store although the
\* hit's local file is there and readable
C7_Witness ==
    /\ query.pc = "done"
    /\ query.obs # None
    /\ RemoteGood
    /\ query.obs.local # NoFile /\ Decodable(query.obs.local.bytes)
    /\ Len(query.relevant_docs) = 2
    /\ query.relevant_docs[2].source = "walrus"

\* C8 (Spec): with one of the three fields None, a call of retrieve_documents that is
\* past its guard has returned the empty list, has not raised, and has neither asked
\* the remote store nor looked at a document file; load_artifacts does not raise.
C8_AbsentServesEmpty ==
    /\ loader.pc # "raised"
    /\ (Serving /\ (index = None \/ vectorizer = None \/ document_metadata = None)) =>
        /\ query.pc = "done"
        /\ query.raised = "none"
        /\ query.relevant_docs = <<>>
        /\ ~query.asked_remote
        /\ ~query.opened_file

\* a call answered with the empty list after the load found the index file
\* unreadable and cleared the three fields
C8_Witness ==
    /\ query.pc = "done" /\ query.absent
    /\ storeFiles["index"] = Corrupt
    /\ \A n \in ArtifactNames : loader.src[n] = "absent"
    /\ index = None /\ vectorizer = None /\ document_metadata = None

\* the call before: same query, same k, no load_artifacts since it started
Repeated ==
    /\ query.pc = "done"
    /\ ~query.reloaded
    /\ hist.prev # None
    /\ hist.prev.text = query.text /\ hist.prev.k = query.k

AllLocal(docs) == \A j \in 1..Len(docs) : docs[j].source = "local"

C10_GetAfterAdd ==
    /\ \A f \in FileNames : get_blob_id(document_map, f) = lastAdd[f]
    /\ (ret # None /\ ret.op = "get_blob_id") => ret.val = lastAdd[ret.filename]
    /\ (ret # None /\ ret.op = "add_document") =>
            get_blob_id(document_map, ret.filename) = lastAdd[ret.filename]
            /\ lastAdd[ret.filename] # NotFound

\* get_blob_id returned the blob id of the latest add for a filename while the other
\* filename is not in the map
C10_Witness ==
    /\ ret # None /\ ret.op = "get_blob_id"
    /\ ret.filename = "alpha.txt" /\ ret.val = 2
    /\ mapFile.st = "ok" /\ DOMAIN mapFile.data = {"alpha.txt"}
    /\ get_blob_id(document_map, "beta.txt") = NotFound

\* C11 (SpecMap): remove_document returns true exactly when the filename was in the
\* map, the filename is not in the map afterwards, and a remove that directly follows a
\* remove of the same filename returns false and leaves the in-memory map and the
\* backing file as they were.
C11_RemoveIdempotent ==
    (ret # None /\ ret.op = "remove_document") =>
        /\ ret.val = (ret.filename \in DOMAIN mapHist.dm)
        /\ ret.filename \notin DOMAIN document_map
        /\ ret.again => /\ ret.val = FALSE
                        /\ document_map = mapHist.dm
                        /\ mapFile = mapHist.file

\* a second remove of a filename whose first remove deleted a record: the backing file
\* holds the map the first remove saved
C11_Witness ==
    /\ ret # None /\ ret.op = "remove_document" /\ ret.again
    /\ ret.val = FALSE
    /\ mapFile.st = "ok" /\ DOMAIN mapFile.data = FileNames \ {ret.filename}

\* C12 (SpecMap): after any sequence of add_document and remove_document calls a
\* filename has a record exactly when its latest call was an add, that record holds the
\* blob id and the metadata of that add and nothing else, and list_documents returns
\* exactly the filenames that have a record.
C12_LatestRecordOnly ==
    /\ \A f \in FileNames :
            IF mapHist.added[f] = None
            THEN f \notin DOMAIN document_map
            ELSE f \in DOMAIN document_map /\ document_map[f] = mapHist.added[f]
    /\ (ret # None /\ ret.op = "list_documents") =>
            ret.val = {f \in FileNames : mapHist.added[f] # None}

\* a filename was added again with other metadata and another blob id: the earlier
\* record had a metadata key that the new record does not have
C12_Witness ==
    /\ ret # None /\ ret.op = "add_document"
    /\ ret.filename \in DOMAIN mapHist.dm
    /\ "updated" \in DOMAIN mapHist.dm[ret.filename].metadata
    /\ DOMAIN document_map[ret.filename].metadata = {"source"}
    /\ mapHist.dm[ret.filename].blob_id # document_map[ret.filename].blob_id
    /\ DOMAIN document_map = FileNames

\* C13 (SpecMap): after every add_document, and after every remove_document that
\* deleted a record, the backing file holds the whole in-memory map: a DocumentMap
\* constructed from the file at that point has the same records.
C13_FileHoldsMap ==
    (ret # None /\ (ret.op = "add_document" \/ (ret.op = "remove_document" /\ ret.val))) =>
        /\ mapFile.st = "ok"
        /\ load_map(mapFile) = document_map

\* a remove deleted one of two records, over a backing file that held both
C13_Witness ==
    /\ ret # None /\ ret.op = "remove_document" /\ ret.val
    /\ DOMAIN mapHist.file.data = FileNames
    /\ DOMAIN document_map = FileNames \ {ret.filename}
    /\ load_map(mapFile) = document_map

\* C14 (SpecMap): when the process stops while add_document is writing the backing
\* file, a DocumentMap loaded from the file afterwards holds the whole map of before the
\* add or the whole map of after it.
C14_AtomicSave ==
    (ret # None /\ ret.op = "stopped") => load_map(mapFile) \in {mapHist.dm, ret.after}

\* the process stopped inside the write of an add to a map that had a record: the file
\* is not JSON and a DocumentMap loaded from it is empty
C14_Witness ==
    /\ ret # None /\ ret.op = "stopped"
    /\ mapHist.file.st = "ok" /\ DOMAIN mapHist.dm = {"alpha.txt"}
    /\ DOMAIN ret.after = FileNames
    /\ mapFile = CorruptMapFile
    /\ load_map(mapFile) = EmptyDict

C16_SideTableOfThisRun ==
    (ingester.pc = "done" /\ ingester.use_walrus /\ ingester.success) =>
        /\ Len(ingester.returned) = Len(SaveOrder)
        /\ ArtifactNames \subseteq DOMAIN idsFile
        /\ \A i \in 1..Len(SaveOrder) :
                /\ idsFile[SaveOrder[i]] = ingester.returned[i]
                /\ blobs[idsFile[SaveOrder[i]]] = ArtBlob(SaveOrder[i], storeFiles[SaveOrder[i]])

\* the second run with remote storage: its three stores were served and the side-table,
\* which held the ids of the first run, names three later blobs
C16_Witness ==
    /\ ingester.pc = "done" /\ ingester.use_walrus /\ ingester.success
    /\ hist.runs = 2
    /\ \E i \in 1..Len(blobs) : i < idsFile["index"] /\ blobs[i].kind = "index"
    /\ idsFile["metadata"] = Len(blobs)

\* C17 (SpecLoad): load_artifacts asks the remote store for an artifact only when the
\* side-table the retriever read names index, vectorizer and metadata; when a name is
\* missing or the table is empty, no remote request is made and every field is set
\* from its local file, or to None where there is no file.
C17_RemoteOnlyWhenKnown ==
    LET known == ArtifactNames \subseteq DOMAIN vector_store_blob_ids
        asked == loader.pc = "remote" \/ loader.remote_failed \/ loader.fetched # {}
    IN  /\ asked => known
        /\ (loader.pc = "done" /\ ~known) =>
                \A n \in ArtifactNames :
                    /\ loader.src[n] \in {"local", "absent"}
                    /\ field(n) \in {None, storeFiles[n]}

\* the side-table names the index and the vectorizer only, the remote store is up and
\* holds the three blobs: the three fields were loaded from the local files
C17_Witness ==
    /\ loader.pc = "done" /\ ~walrusDown
    /\ DOMAIN vector_store_blob_ids = {"index", "vectorizer"}
    /\ blobs[vector_store_blob_ids["index"]].kind = "index"
    /\ \A n \in ArtifactNames : loader.src[n] = "local" /\ field(n) = storeFiles[n]

\* C18 (SpecIngest): after load_documents no two entries of document_metadata have
\* the same file_name, whatever the Document Map and the files under data_dir and its
\* subdirectory are.
C18_UniqueFileNames ==
    ingester.pc \in {"loaded", "done", "raised"} =>
        \A i, j \in 1..Len(ingester.document_metadata) :
            i # j => ingester.document_metadata[i].file_name #
                     ingester.document_metadata[j].file_name

\* a run without remote storage over data/alpha.txt and data/sub/alpha.txt: both files
\* are in the corpus under the file_name alpha.txt
C18_Witness ==
    /\ ingester.pc = "loaded" /\ ~ingester.use_walrus
    /\ Len(ingester.document_metadata) = 2
    /\ ingester.document_metadata[1].file_name = "alpha.txt"
    /\ ingester.document_metadata[2].file_name = "alpha.txt"
    /\ ingester.document_metadata[1].file_path = Path(data_dir, "alpha.txt")
    /\ ingester.document_metadata[2].file_path = Path(sub_dir, "alpha.txt")
    /\ ingester.documents = <<T_alpha, T_more>>

\* the content a request leaves behind: the uploaded bytes; for an append the old
\* content (the blob's when the Document Map had a blob id, else the local file's), a
\* newline and the appended text
FullContent(req) ==
    IF req.op = "upload" THEN req.content
    ELSE (IF req.prev_id # NotFound THEN blobs[req.prev_id].bytes ELSE req.prev_file.bytes)
         \o <<NewLine>> \o req.content

\* the handler is on the remote path of a request, or has completed it
RemotePath ==
    IF handler.req = None THEN FALSE
    ELSE handler.use_walrus /\ handler.pc \in {"ingest", "ingesting", "reloading", "idle"}

\* C19 (SpecApp): from the writes of an upload or append on the remote path to its
\* completion, the Document Map record of the filename holds the blob id the store
\* just returned, that blob holds the full new content, and the local file under
\* DATA_DIR holds the same full content.
C19_WholeUpdate ==
    RemotePath =>
        /\ handler.req.blob_id \in 1..Len(blobs)
        /\ handler.req.blob_id # handler.req.prev_id
        /\ get_blob_id(document_map, handler.req.filename) = handler.req.blob_id
        /\ blobs[handler.req.blob_id] = DocBlob(FullContent(handler.req))
        /\ dataFiles[Path(DATA_DIR, handler.req.filename)] = File(FullContent(handler.req))

\* an append to an uploaded file has completed through the remote path: a second blob
\* holds the old text, a newline and the appended text, and so does the local file
C19_Witness ==
    /\ RemotePath /\ handler.pc = "idle" /\ handler.req.op = "append"
    /\ handler.req.prev_id = 1 /\ handler.req.blob_id = 2
    /\ blobs[2] = DocBlob(T_appended)
    /\ dataFiles[Path(DATA_DIR, "alpha.txt")] = File(T_appended)
    /\ document_map["alpha.txt"].blob_id = 2
    /\ index # None

\* a 2xx status
Success(response) ==
    IF response = NoResponse THEN FALSE ELSE response.status_code \div 100 = 2

\* C20 (SpecClient): store_document, retrieve_document and list_documents return a
\* value only when the response has a success status; on every other status they
\* raise and return no blob id, no bytes and no list.
C20_ValueOnlyOnSuccess ==
    http.op # "none" =>
        /\ ~http.out.raised => Success(http.response)
        /\ (http.response # NoResponse /\ ~Success(http.response)) =>
                http.out.raised /\ "val" \notin DOMAIN http.out

\* retrieve_document got status 404 with a body that holds base64 data: it raised
C20_Witness ==
    /\ http.op = "retrieve_document"
    /\ http.response # NoResponse
    /\ http.response.status_code = 404
    /\ http.response.body = [data |-> b64encode(T_alpha)]
    /\ http.out = Raised("Exception")

\* the list request was answered 200 with a listing that has an entry for the blob id
Listed ==
    /\ http.listing # NoResponse
    /\ http.listing.status_code = 200
    /\ http.listing.body # NotJson
    /\ "blobs" \in DOMAIN http.listing.body
    /\ \E i \in 1..Len(http.listing.body.blobs) :
            /\ "id" \in DOMAIN http.listing.body.blobs[i]
            /\ http.listing.body.blobs[i].id = http.sent.blob_id

\* the retrieve request was answered 200 with base64 data
Retrievable ==
    /\ http.retrieval # NoResponse
    /\ http.retrieval.status_code = 200
    /\ http.retrieval.body # NotJson
    /\ "data" \in DOMAIN http.retrieval.body
    /\ http.retrieval.body.data # NotB64

\* C21 (SpecInfo): get_blob_info calls list_documents first.  When the listing holds
\* the blob id it returns the descriptor of the listing and does not call
\* retrieve_document; otherwise (the id is not listed, or the listing failed) it calls
\* retrieve_document once, returns the descriptor without metadata when that succeeds
\* and raises when it fails.
C21_ListThenRetrieve ==
    http.op = "get_blob_info" =>
        IF Listed
        THEN /\ http.out.calls = <<"list_documents">>
             /\ ~http.out.raised
             /\ http.out.val.blob_id = http.sent.blob_id
             /\ "metadata" \in DOMAIN http.out.val
             /\ \E i \in 1..Len(http.listing.body.blobs) :
                    /\ "id" \in DOMAIN http.listing.body.blobs[i]
                    /\ http.listing.body.blobs[i].id = http.sent.blob_id
                    /\ "metadata" \in DOMAIN http.listing.body.blobs[i] =>
                            http.out.val.metadata = http.listing.body.blobs[i].metadata
        ELSE /\ http.out.calls = <<"list_documents", "retrieve_document">>
             /\ Retrievable =>
                    /\ ~http.out.raised
                    /\ http.out.val.blob_id = http.sent.blob_id
                    /\ http.out.val.exists
                    /\ "metadata" \notin DOMAIN http.out.val
             /\ ~Retrievable => http.out.raised

\* the list request failed with status 500 and the retrieve request succeeded: the
\* descriptor says that the blob exists and has no metadata
C21_Witness ==
    /\ http.op = "get_blob_info"
    /\ http.listing # NoResponse /\ http.listing.status_code = 500
    /\ Retrievable
    /\ http.out = [raised |-> FALSE, val |-> Degraded(http.sent.blob_id),
                   calls |-> <<"list_documents", "retrieve_document">>]

\* the end-to-end scenario: the loaded artifacts are those of an ingestion of exactly
\* alpha.txt ('apples and bananas') and beta.txt ('cars and trucks'), both files are
\* still there, and retrieve_documents('fruit', k=1) has returned
FruitAsked ==
    /\ query.pc = "done" /\ ~query.absent
    /\ query.text = T_more /\ query.k = 1
    /\ \E names \in {<<"alpha.txt", "beta.txt">>, <<"beta.txt", "alpha.txt">>} :
            /\ index = Artifacts(names).index
            /\ vectorizer = Artifacts(names).vectorizer
            /\ document_metadata = Artifacts(names).metadata
    /\ dataFiles[Path(data_dir, "alpha.txt")] = File(T_alpha)
    /\ dataFiles[Path(data_dir, "beta.txt")] = File(T_beta)

\* C22 as stated (SpecQuery): after ingesting exactly alpha.txt and beta.txt, in either
\* order, retrieve_documents('fruit', k=1) returns exactly one non-empty result and its
\* file_name is alpha.txt.
C22_FruitFindsAlpha ==
    FruitAsked =>
        /\ Len(query.relevant_docs) = 1
        /\ query.relevant_docs[1].content # <<>>
        /\ query.relevant_docs[1].file_name = "alpha.txt"

\* C22 amended (SpecQuery): 'fruit' is a term of neither document, so both rows are
\* equally far from the query and the lower position wins: the call returns exactly
\* one non-empty result, the document the ingester encountered first.
C22_FruitFindsFirst ==
    FruitAsked =>
        /\ Len(query.relevant_docs) = 1
        /\ query.relevant_docs[1].content # <<>>
        /\ query.relevant_docs[1].file_name = document_metadata.obj[1].file_name

\* beta.txt was encountered first and 'fruit' returned beta.txt
C22_Witness ==
    /\ FruitAsked
    /\ document_metadata.obj[1].file_name = "beta.txt"
    /\ query.query_embedding = <<0, 0, 0, 0, 0>>
    /\ query.indices = <<0>>
    /\ Len(query.relevant_docs) = 1
    /\ query.relevant_docs[1].file_name = "beta.txt"

\* the positions of the corpus that hold file name f
Entries(f) ==
    {i \in 1..Len(ingester.document_metadata) : ingester.document_metadata[i].file_name = f}

\* load_documents of a run with remote storage has returned
RemoteRunLoaded == ingester.pc \in {"loaded", "done", "raised"} /\ ingester.use_walrus

\* f was fetched: it is in the corpus once, with the blob's text and source 'walrus'
IngestedFromRemote(f) ==
    /\ Cardinality(Entries(f)) = 1
    /\ \A i \in Entries(f) :
            /\ ingester.document_metadata[i].source = "walrus"
            /\ ingester.documents[i] = blobs[ingester.had[f].blob_id].bytes

\* the file at path pa is in the corpus with its own text and source 'local'
IngestedFromLocal(pa) ==
    \E i \in Entries(pa.name) :
        /\ ingester.document_metadata[i].source = "local"
        /\ ingester.document_metadata[i].file_path = pa
        /\ ingester.documents[i] = dataFiles[pa].bytes

\* C23 as stated (SpecIngest): in a run with remote storage, a file name the Document
\* Map maps to a blob id whose fetch succeeds is ingested once, with the remote text
\* and source 'walrus', and no local file of that name is loaded; when the fetch
\* fails, a local file of that name that exists is ingested with source 'local'.
C23_RemoteElseLocalExists ==
    RemoteRunLoaded =>
        \A f \in DOMAIN ingester.had :
            IF f \in ingester.fetched
            THEN IngestedFromRemote(f)
            ELSE \A pa \in Paths :
                    pa.dir # DATA_DIR /\ pa.name = f /\ exists(dataFiles, pa)
                        => IngestedFromLocal(pa)

\* C23 amended (SpecIngest): as above, but when the fetch fails a local file of that
\* name is ingested with source 'local' if it exists and reads as UTF-8 text; a file
\* that cannot be read is left out.
C23_RemoteElseLocalReadable ==
    RemoteRunLoaded =>
        \A f \in DOMAIN ingester.had :
            IF f \in ingester.fetched
            THEN IngestedFromRemote(f)
            ELSE \A pa \in Paths :
                    pa.dir # DATA_DIR /\ pa.name = f =>
                        IF Readable(dataFiles, pa) THEN IngestedFromLocal(pa)
                        ELSE \A i \in Entries(f) : ingester.document_metadata[i].file_path # pa

\* alpha.txt was fetched from the remote store although data_dir holds a readable
\* alpha.txt, and beta.txt was read from data_dir
C23_Witness ==
    /\ RemoteRunLoaded
    /\ "alpha.txt" \in ingester.fetched
    /\ Readable(dataFiles, Path(data_dir, "alpha.txt"))
    /\ IngestedFromRemote("alpha.txt")
    /\ IngestedFromLocal(Path(data_dir, "beta.txt"))

\* C24 (Spec): once an upload handler has added or replaced the record of a file
\* name, every hit on that file name that retrieve_documents resolves afterwards uses
\* the blob id the Document Map records now, not the mapping the Retriever read when
\* it was constructed.
C24_CurrentBlobId ==
    (/\ Serving /\ query.obs # None
     /\ get_blob_id(document_map, query.obs.doc_info.file_name) # NotFound)
    => query.obs.blob_id = get_blob_id(document_map, query.obs.doc_info.file_name)

\* beta.txt was uploaded and stored as a blob after the Retriever was constructed, the
\* ingestion run of the upload indexed it, and a later call resolved the hit on
\* beta.txt without a blob id and returned nothing for it
C24_Witness ==
    /\ query.pc = "done" /\ query.obs # None
    /\ handler.pc = "idle" /\ handler.req # None
    /\ query.obs.doc_info.file_name = "beta.txt"
    /\ query.obs.doc_info.source = "walrus"
    /\ get_blob_id(document_map, "beta.txt") # NotFound
    /\ get_blob_id(load_map(mapFile), "beta.txt") = get_blob_id(document_map, "beta.txt")
    /\ query.obs.blob_id = NotFound
    /\ Added = <<>>

\* C25 (Spec): the DocumentMap instances of the web process and of the ingestion
\* runs share document_map.json, and no add_document of any of them is lost: the file
\* has a record for every file name that was added, with the blob id of its latest add.
C25_NoLostUpdate ==
    \A f \in FileNames :
        lastAdd[f] # NotFound => get_blob_id(load_map(mapFile), f) = lastAdd[f]

\* the ingestion run of an upload added a record for alpha.txt; the next upload,
\* through the web process's instance, wrote a file without it
C25_Witness ==
    /\ handler.req # None /\ handler.req.op = "upload"
    /\ lastAdd["alpha.txt"] # NotFound
    /\ lastAdd["beta.txt"] = handler.req.blob_id
    /\ ~document_exists(document_map, "alpha.txt")
    /\ mapFile = save_map(document_map)
    /\ ~document_exists(load_map(mapFile), "alpha.txt")

\* the position in the index behind result j of the running call
HitOf(j) == At(query.indices, query.from[j])

\* C26 (SpecQuery): for every k and every loaded index of n documents, k > n included,
\* each result of retrieve_documents stems from a position in 0..n-1, there are at
\* most min(k, n) results, no document is returned twice, and the negative
\* placeholder of a missing neighbour yields no result.
C26_ValidPositions ==
    Serving /\ document_metadata # None =>
        LET n == Len(document_metadata.obj)
        IN  /\ Len(query.relevant_docs) <= IF query.k < n THEN query.k ELSE n
            /\ \A j \in 1..Len(query.from) : HitOf(j) \in 0..(n - 1)
            /\ \A i, j \in 1..Len(query.from) : i # j => HitOf(i) # HitOf(j)

\* k = 2 on an index of one document: the search returned <<0, -1>> and the call
\* returned that document twice
C26_Witness ==
    /\ query.pc = "done" /\ query.k = 2
    /\ document_metadata # None /\ Len(document_metadata.obj) = 1
    /\ query.indices = <<0, -1>>
    /\ Len(query.relevant_docs) = 2
    /\ query.relevant_docs[1] = query.relevant_docs[2]
    /\ HitOf(2) = -1

\* text occurs in content
Contains(content, text) ==
    \E i \in 1..(Len(content) - Len(text) + 1) :
        SubSeq(content, i, i + Len(text) - 1) = text

\* C27 (SpecAppended): after an append request has returned success, through the remote
\* path or the local fallback, every content that retrieve_documents or a later
\* ingestion run resolves for that file name includes the appended text, whether the
\* remote store is reachable or not.
C27_AppendedTextKept ==
    Answered /\ handler.req.op = "append" =>
        /\ \A j \in 1..Len(query.relevant_docs) :
                query.relevant_docs[j].file_name = handler.req.filename
                    => Contains(query.relevant_docs[j].content, handler.req.content)
        /\ ingester.pc \in {"loaded", "done", "raised"} =>
                \A i \in Entries(handler.req.filename) :
                    Contains(ingester.documents[i], handler.req.content)

\* the append went the remote path and the Document Map records its blob, yet a later
\* retrieve_documents returned alpha.txt from the remote store without the appended text
C27_Witness ==
    /\ Answered /\ handler.req.op = "append" /\ handler.req.filename = "alpha.txt"
    /\ handler.req.blob_id # NotFound
    /\ get_blob_id(document_map, "alpha.txt") = handler.req.blob_id
    /\ query.pc = "done"
    /\ \E j \in 1..Len(query.relevant_docs) :
            /\ query.relevant_docs[j].file_name = "alpha.txt"
            /\ query.relevant_docs[j].source = "walrus"
            /\ ~Contains(query.relevant_docs[j].content, handler.req.content)

\* the side-table file names the three blobs that one ingestion run stored, one
\* after the other, from the artifacts it built
OneRun(ids) ==
    /\ DOMAIN ids = ArtifactNames
    /\ \A i \in 1..Len(SaveOrder) : ids[SaveOrder[i]] = ids[SaveOrder[1]] + i - 1
    /\ \E arts \in hist.sets :
            \A n \in ArtifactNames : blobs[ids[n]] = ArtBlob(n, arts[n])

\* a step of create_embeddings whose remote save did not store all three artifacts
SaveFailed ==
    /\ ingester.pc = "loaded" /\ ingester'.pc = "done"
    /\ ingester.use_walrus /\ ~ingester'.success

\* C28 (Spec): the persisted side-table never names blobs of different ingestion runs:
\* it is empty or names the three blobs of one run, it is rewritten only by a run whose
\* three stores succeeded, and a run with a failed store leaves it exactly as it was.
C28_SideTableOfOneRun ==
    /\ [](idsFile = EmptyDict \/ OneRun(idsFile))
    /\ [][(idsFile' # idsFile => ingester'.pc = "done" /\ ingester'.success)
          /\ (SaveFailed => idsFile' = idsFile)]_vars

\* the first run saved its three artifacts; the second run stored its index and
\* failed at the vectorizer, and the side-table still names the blobs of the first
C28_Witness ==
    /\ ingester.pc = "done" /\ ingester.use_walrus /\ ~ingester.success
    /\ Len(ingester.returned) = 1
    /\ OneRun(idsFile)
    /\ idsFile["metadata"] < ingester.returned[1]
    /\ blobs[ingester.returned[1]].kind = "index"

\* a step of an ingestion run that was started with --no-walrus
NoWalrusStep ==
    /\ ingester.pc \in {"constructed", "loaded"} /\ ingester'.pc # ingester.pc
    /\ ~ingester.use_walrus

\* C29 (Spec): an ingestion run with --no-walrus sends no request to the remote store
\* and leaves the blobs, the Document Map and the persisted side-table as they were;
\* it reads the document files under its data directory, changes none of them, and
\* writes nothing but the three local artifact files.
C29_NoWalrusFrame ==
    [][NoWalrusStep =>
        /\ ~ingester'.asked
        /\ blobs' = blobs
        /\ mapFile' = mapFile /\ document_map' = document_map
        /\ idsFile' = idsFile /\ vector_store_blob_ids' = vector_store_blob_ids
        /\ dataFiles' = dataFiles
        /\ \A i \in 1..Len(ingester'.documents) :
                /\ ingester'.document_metadata[i].source = "local"
                /\ ingester'.document_metadata[i].file_path.dir # DATA_DIR
                /\ ingester'.documents[i] =
                        dataFiles[ingester'.document_metadata[i].file_path].bytes
        /\ storeFiles' # storeFiles =>
                /\ ingester'.pc = "done"
                /\ storeFiles'.metadata = Art(ingester'.document_metadata)
                /\ \A n \in ArtifactNames : storeFiles'[n] \notin {NoFile, Corrupt}]_vars

\* a run with --no-walrus has written its artifacts while the Document Map file and
\* the side-table hold what an earlier run with remote storage recorded
C29_Witness ==
    /\ ingester.pc = "done" /\ ~ingester.use_walrus /\ ingester.index # None
    /\ ~ingester.asked
    /\ storeFiles.metadata = Art(ingester.document_metadata)
    /\ mapFile.st = "ok" /\ DOMAIN mapFile.data # {}
    /\ OneRun(idsFile)
    /\ blobs # <<>>

=============================================================================
